---- MODULE Spec2Model ----
(***************************************************************************)
(* A model of tokenkit (ext/tokenkit/src): the configuration validator,    *)
(* the strategy factory, the thirteen segmentation variants, the          *)
(* preserve-pattern overlay and the post-processing pipeline.             *)
(*                                                                         *)
(* Text is a sequence of characters over a five-letter alphabet that has   *)
(* one member of every character class the code distinguishes:            *)
(*   "A"  upper-case letter      "a"  lower-case letter                    *)
(*   "-"  ASCII punctuation      "@"  ASCII punctuation, the mark of a link*)
(*   " "  whitespace                                                       *)
(* Every character is one byte, so byte offsets are character offsets.    *)
(* Offsets are 0-based and spans half-open, as in the code.               *)
(*                                                                         *)
(* A token is a record [at, s]: s is the token's text and at is the        *)
(* offset in the original text where the token was taken from.  The code   *)
(* returns only the texts; at is kept beside them to speak of their order. *)
(***************************************************************************)
EXTENDS Integers, Sequences, FiniteSets, TLC

VARIABLES
    DEFAULT_CONFIG, \* lib.rs: static DEFAULT_CONFIG (the value inside the Mutex)
    op,             \* the entry point called last ("none" before any call)
    text,           \* its text argument
    hash,           \* its configuration hash argument
    ret,            \* what it returned: [ok, val] or [ok, err]
    starts,         \* start offset of every returned token (not in the code)
    built,          \* whether the call reached tokenizer::from_config
    prev_default,   \* DEFAULT_CONFIG as it was when the call began
    spans_in,       \* argument of merge_overlapping_spans_optimized
    spans_out,      \* its result
    pc,             \* "ready": inputs chosen, call pending; "done": returned
    threads,        \* per thread: the entry point it is in, where, its locals
    mutex,          \* the thread that holds DEFAULT_CONFIG's lock, or NoThread
    written         \* every configuration a completed write stored (not in the code)

vars == <<DEFAULT_CONFIG, op, text, hash, ret, starts, built, prev_default,
          spans_in, spans_out, pc, threads, mutex, written>>

(***************************************************************************)
(* Bounds of the model.                                                    *)
(***************************************************************************)
MaxLen == 3

MaxSpans == 3

Chars == {"A", "a", "-", "@", " "}

Texts == UNION {[1..n -> Chars] : n \in 0..MaxLen}

(***************************************************************************)
(* Characters (std: char::is_whitespace, is_ascii_punctuation,             *)
(* is_alphabetic, is_alphanumeric, to_lowercase).                          *)
(***************************************************************************)
is_whitespace(c) == c \in {" ", "\t", "\n", "\r"}

is_ascii_punctuation(c) == c \in {"-", "@", "/"}

is_alphabetic(c) == c \in {"A", "a"}

is_alphanumeric(c) == c \in {"A", "a"}

char_to_lowercase(c) == IF c = "A" THEN "a" ELSE c

to_lowercase(s) == [i \in 1..Len(s) |-> char_to_lowercase(s[i])]

Min(a, b) == IF a < b THEN a ELSE b

Max(a, b) == IF a > b THEN a ELSE b

\* &text[from..to]
Slice(s, from, to) == SubSeq(s, from + 1, to)

Tok(at, s) == [at |-> at, s |-> s]

RECURSIVE Flatten(_)
Flatten(ss) == IF ss = <<>> THEN <<>> ELSE Head(ss) \o Flatten(Tail(ss))

Strs(tokens) == [i \in 1..Len(tokens) |-> tokens[i].s]

Ats(tokens) == [i \in 1..Len(tokens) |-> tokens[i].at]

\* s.chars().filter(|c| keep(c)).collect()
Retain(s, drop) == SelectSeq(s, LAMBDA c : c \notin drop)

Punctuation == {c \in Chars : is_ascii_punctuation(c)}

Whitespace == {c \in Chars : is_whitespace(c)}

NonAlphabetic == {c \in Chars : ~is_alphabetic(c)}

NonAlphanumeric == {c \in Chars : ~is_alphanumeric(c)}

(***************************************************************************)
(* Splitting a text into the maximal runs of characters outside seps, each *)
(* with its offset: the loops of CharGroupTokenizer::tokenize and          *)
(* LetterTokenizer::tokenize, and str::split_whitespace.  base is the      *)
(* offset of `s` in the original text.                                     *)
(***************************************************************************)
RECURSIVE SplitLoop(_, _, _, _, _, _)
SplitLoop(s, seps, base, i, current_token, tokens) ==
    IF i > Len(s)
    THEN IF current_token.s # <<>> THEN Append(tokens, current_token) ELSE tokens
    ELSE IF s[i] \in seps
         THEN IF current_token.s # <<>>
              THEN SplitLoop(s, seps, base, i + 1, Tok(base + i, <<>>),
                             Append(tokens, current_token))
              ELSE SplitLoop(s, seps, base, i + 1, Tok(base + i, <<>>), tokens)
         ELSE SplitLoop(s, seps, base, i + 1,
                        Tok(current_token.at, Append(current_token.s, s[i])), tokens)

SplitRuns(s, seps, base) == SplitLoop(s, seps, base, 1, Tok(base, <<>>), <<>>)

split_whitespace(s, base) == SplitRuns(s, Whitespace, base)

\* unicode_segmentation: over this alphabet a word is a maximal run of letters
unicode_words(s, base) == SplitRuns(s, NonAlphanumeric, base)

(***************************************************************************)
(* Regular expressions (the regex crate).  A regex source string is a      *)
(* record [k, s]:                                                          *)
(*   k = "lit"   the literal s, one or more characters                     *)
(*   k = "star"  c* for the character c = s[1]: it matches the empty      *)
(*               string                                                    *)
(*   k = "bad"   a source that Regex::new rejects, such as "("; s tells    *)
(*               two such sources apart                                    *)
(***************************************************************************)
Lit(s) == [k |-> "lit", s |-> s]

Star(c) == [k |-> "star", s |-> <<c>>]

Bad(c) == [k |-> "bad", s |-> <<c>>]

\* Regex::new(p).is_ok()
compiles(p) == p.k # "bad"

NoMatch == <<-1, -1>>

RECURSIVE RunEnd(_, _, _)
RunEnd(s, c, i) ==
    IF i < Len(s) /\ s[i + 1] = c THEN RunEnd(s, c, i + 1) ELSE i

\* Regex::find_at: the leftmost match that starts at offset i or later
find_at(p, s, i) ==
    IF p.k = "star"
    THEN IF i <= Len(s) THEN <<i, RunEnd(s, p.s[1], i)>> ELSE NoMatch
    ELSE LET n == Len(p.s)
             hits == {j \in i..(Len(s) - n) : Slice(s, j, j + n) = p.s}
         IN IF hits = {} THEN NoMatch
            ELSE LET j == CHOOSE x \in hits : \A y \in hits : x <= y
                 IN <<j, j + n>>

\* Regex::find
find(p, s) == find_at(p, s, 0)

\* Regex::is_match
is_match(p, s) == find(p, s) # NoMatch

\* Regex::find_iter: successive non-overlapping matches.  An empty match
\* restarts the search one character on, and an empty match that ends where
\* the match before it ended is skipped (regex: Matches::next).
RECURSIVE FindIterLoop(_, _, _, _, _)
FindIterLoop(p, s, last_end, last_match, acc) ==
    IF last_end > Len(s) THEN acc
    ELSE LET m == find_at(p, s, last_end)
         IN IF m = NoMatch THEN acc
            ELSE IF m[1] = m[2]
                 THEN IF m[2] = last_match
                      THEN FindIterLoop(p, s, m[2] + 1, last_match, acc)
                      ELSE FindIterLoop(p, s, m[2] + 1, m[2], Append(acc, m))
                 ELSE FindIterLoop(p, s, m[2], m[2], Append(acc, m))

find_iter(p, s) == FindIterLoop(p, s, 0, -1, <<>>)

\* every tokenizer's new(): config.preserve_patterns.iter()
\*     .filter_map(|p| Regex::new(p).ok()).collect()
compile_preserve_patterns(config) == SelectSeq(config.preserve_patterns, compiles)

\* for pattern in preserve_patterns { for mat in pattern.find_iter(text) { push } }
RECURSIVE collect_matches(_, _)
collect_matches(patterns, s) ==
    IF patterns = <<>> THEN <<>>
    ELSE find_iter(Head(patterns), s) \o collect_matches(Tail(patterns), s)

(***************************************************************************)
(* tokenizer/mod.rs: span merge.                                           *)
(***************************************************************************)
\* the comparator of sort_by: start ascending, then end descending
span_before(a, b) == a[1] < b[1] \/ (a[1] = b[1] /\ a[2] > b[2])

RECURSIVE insert_span(_, _)
insert_span(sorted, x) ==
    IF sorted = <<>> THEN <<x>>
    ELSE IF span_before(x, Head(sorted)) THEN <<x>> \o sorted
         ELSE <<Head(sorted)>> \o insert_span(Tail(sorted), x)

RECURSIVE sort_spans(_)
sort_spans(spans) ==
    IF spans = <<>> THEN <<>>
    ELSE insert_span(sort_spans(Tail(spans)), Head(spans))

\* as merge_loop_optimized, but a span that starts where the current one ends is
\* merged into it (<= for <)
RECURSIVE merge_loop_touching(_, _, _)
merge_loop_touching(rest, current, merged) ==
    IF rest = <<>> THEN Append(merged, current)
    ELSE LET span == Head(rest)
         IN IF span[1] <= current[2]
            THEN IF span[2] > current[2]
                 THEN merge_loop_touching(Tail(rest), <<current[1], span[2]>>, merged)
                 ELSE merge_loop_touching(Tail(rest), current, merged)
            ELSE merge_loop_touching(Tail(rest), span, Append(merged, current))

\* the loop of merge_overlapping_spans_optimized over the sorted spans
RECURSIVE merge_loop_optimized(_, _, _)
merge_loop_optimized(rest, current, merged) ==
    IF rest = <<>> THEN Append(merged, current)
    ELSE LET span == Head(rest)
         IN IF span[1] < current[2]
            THEN IF span[2] > current[2]
                 THEN merge_loop_optimized(Tail(rest), <<current[1], span[2]>>, merged)
                 ELSE merge_loop_optimized(Tail(rest), current, merged)
            ELSE merge_loop_optimized(Tail(rest), span, Append(merged, current))

merge_overlapping_spans_optimized(spans) ==
    IF spans = <<>> THEN spans
    ELSE LET sorted == sort_spans(spans)
         IN merge_loop_optimized(Tail(sorted), Head(sorted), <<>>)

\* the loop of merge_overlapping_spans: an overlapping span that ends later
\* REPLACES the current one (current = span)
RECURSIVE merge_loop(_, _, _)
merge_loop(rest, current, merged) ==
    IF rest = <<>> THEN Append(merged, current)
    ELSE LET span == Head(rest)
         IN IF span[1] < current[2]
            THEN IF span[2] > current[2]
                 THEN merge_loop(Tail(rest), span, merged)
                 ELSE merge_loop(Tail(rest), current, merged)
            ELSE merge_loop(Tail(rest), span, Append(merged, current))

\* spans are <<start, end, matched text>>
merge_overlapping_spans(spans) ==
    IF spans = <<>> THEN spans
    ELSE LET sorted == sort_spans(spans)
         IN merge_loop(Tail(sorted), Head(sorted), <<>>)

(***************************************************************************)
(* tokenizer/mod.rs: post-processing.                                      *)
(***************************************************************************)
\* preserve_chars is the set of exempted characters ({} for None)
post_process_with_preserved(tokens, config, preserve_chars) ==
    LET lowered == IF config.lowercase
                   THEN [i \in 1..Len(tokens) |->
                            Tok(tokens[i].at, to_lowercase(tokens[i].s))]
                   ELSE tokens
        stripped == [i \in 1..Len(lowered) |->
                        Tok(lowered[i].at,
                            Retain(lowered[i].s, Punctuation \ preserve_chars))]
    IN IF config.remove_punctuation
       THEN SelectSeq(stripped, LAMBDA t : t.s # <<>>)
       ELSE lowered

\* post_process with the lowercase fold left out
post_process_without_lowercase(tokens, config) ==
    post_process_with_preserved(tokens, [config EXCEPT !.lowercase = FALSE], {})

post_process(tokens, config) == post_process_with_preserved(tokens, config, {})

post_process_in_place(tokens, config) ==
    LET lowered == IF config.lowercase
                   THEN [i \in 1..Len(tokens) |->
                            Tok(tokens[i].at, to_lowercase(tokens[i].s))]
                   ELSE tokens
        retained == [i \in 1..Len(lowered) |->
                        Tok(lowered[i].at, Retain(lowered[i].s, Punctuation))]
    IN IF config.remove_punctuation
       THEN SelectSeq(retained, LAMBDA t : t.s # <<>>)
       ELSE lowered

\* text.split_whitespace().filter(|s| !s.is_empty()).map(to_string).collect()
tokenize_simple(s, base) ==
    SelectSeq(split_whitespace(s, base), LAMBDA t : t.s # <<>>)

(***************************************************************************)
(* tokenizer/mod.rs: the preserve-pattern overlay.                         *)
(***************************************************************************)
emit_span_first(result, before_tokens, preserved) ==
    result \o <<preserved>> \o before_tokens

\* mod.rs 181-184: the tokens of the gap, then the preserved span
emit_span(result, before_tokens, preserved) ==
    result \o before_tokens \o <<preserved>>

\* F: Fn(&str) -> Vec<String>: the closure handed in, named by the function
\* it is (the only one the crate passes is tokenize_simple)
call_tokenizer_fn(tokenizer_fn, s, base) ==
    CASE tokenizer_fn = "tokenize_simple" -> tokenize_simple(s, base)

\* mod.rs 177-182 and 188-193: the tokens of original_text[pos..start], none
\* when the slice is empty
gap_tokens(original_text, pos, start, config, tokenizer_fn) ==
    IF start > pos
    THEN post_process_in_place(
             call_tokenizer_fn(tokenizer_fn, Slice(original_text, pos, start), pos),
             config)
    ELSE <<>>

\* mod.rs 176-186: the loop over the preserved spans from the i-th on;
\* <<result, pos>> when it ends
RECURSIVE overlay_loop(_, _, _, _, _, _, _)
overlay_loop(preserved_spans, i, result, pos, original_text, config, tokenizer_fn) ==
    IF i > Len(preserved_spans) THEN <<result, pos>>
    ELSE overlay_loop(
             preserved_spans, i + 1,
             emit_span(result,
                       gap_tokens(original_text, pos, preserved_spans[i][1], config,
                                  tokenizer_fn),
                       Tok(preserved_spans[i][1],
                           Slice(original_text, preserved_spans[i][1],
                                 preserved_spans[i][2]))),
             preserved_spans[i][2], original_text, config, tokenizer_fn)

\* mod.rs 188-195: the text after the last span
overlay_remaining(final, original_text, config, tokenizer_fn) ==
    final[1] \o gap_tokens(original_text, final[2], Len(original_text), config,
                           tokenizer_fn)

\* mod.rs 166-195: found holds every match of every pattern
overlay_spans(tokens, found, original_text, config, tokenizer_fn) ==
    IF found = <<>> THEN tokens
    ELSE overlay_remaining(
             overlay_loop(merge_overlapping_spans_optimized(found), 1, <<>>, 0,
                          original_text, config, tokenizer_fn),
             original_text, config, tokenizer_fn)

apply_preserve_patterns_with_tokenizer(tokens, preserve_patterns, original_text, config, tokenizer_fn) ==
    IF preserve_patterns = <<>> THEN tokens
    ELSE overlay_spans(tokens, collect_matches(preserve_patterns, original_text),
                       original_text, config, tokenizer_fn)

\* apply_preserve_patterns with its whole result post-processed once more
apply_preserve_patterns_then_post_process(tokens, preserve_patterns, original_text, config) ==
    post_process(apply_preserve_patterns_with_tokenizer(tokens, preserve_patterns,
                     original_text, config, "tokenize_simple"), config)

apply_preserve_patterns(tokens, preserve_patterns, original_text, config) ==
    apply_preserve_patterns_with_tokenizer(tokens, preserve_patterns, original_text,
                                           config, "tokenize_simple")

(***************************************************************************)
(* The tokenizers.  A tokenizer is the record its new() builds: the        *)
(* configuration, the compiled preserve patterns and its own parameters.   *)
(***************************************************************************)
WhitespaceTokenizer_new(config) ==
    [tag |-> "Whitespace", config |-> config,
     preserve_patterns |-> compile_preserve_patterns(config)]

WhitespaceTokenizer_tokenize(self, s) ==
    LET tokens == SelectSeq(split_whitespace(s, 0), LAMBDA t : t.s # <<>>)
    IN IF self.preserve_patterns # <<>>
       THEN apply_preserve_patterns(tokens, self.preserve_patterns, s, self.config)
       ELSE post_process(tokens, self.config)

CharGroupTokenizer_new(config, split_on_chars) ==
    [tag |-> "CharGroup", config |-> config,
     split_chars |-> {split_on_chars[i] : i \in 1..Len(split_on_chars)},
     preserve_patterns |-> compile_preserve_patterns(config)]

\* CharGroupTokenizer_tokenize that splits at whitespace whatever the set is
CharGroupTokenizer_tokenize_whitespace(self, s) ==
    LET tokens == SplitRuns(s, self.split_chars \cup Whitespace, 0)
    IN IF self.preserve_patterns # <<>>
       THEN apply_preserve_patterns(tokens, self.preserve_patterns, s, self.config)
       ELSE post_process(tokens, self.config)

\* char_group.rs 32-56
CharGroupTokenizer_tokenize(self, s) ==
    LET tokens == SplitRuns(s, self.split_chars, 0)
    IN IF self.preserve_patterns # <<>>
       THEN apply_preserve_patterns(tokens, self.preserve_patterns, s, self.config)
       ELSE post_process(tokens, self.config)

LetterTokenizer_new(config) ==
    [tag |-> "Letter", config |-> config,
     preserve_patterns |-> compile_preserve_patterns(config)]

LetterTokenizer_tokenize(self, s) ==
    LET tokens == SplitRuns(s, NonAlphabetic, 0)
    IN IF self.preserve_patterns # <<>>
       THEN apply_preserve_patterns(tokens, self.preserve_patterns, s, self.config)
       ELSE post_process(tokens, self.config)

\* base.rs: BaseTokenizerFields::new with create_preserve_patterns
BaseTokenizerFields_new(config) ==
    [config |-> config, preserve_patterns |-> compile_preserve_patterns(config)]

LowercaseTokenizer_new(config) ==
    [tag |-> "Lowercase", base |-> BaseTokenizerFields_new(config)]

\* LowercaseTokenizer_tokenize that hands the overlay the configuration as it
\* is, without forcing lowercase
LowercaseTokenizer_tokenize_as_configured(self, s) ==
    LET runs == SplitRuns(s, NonAlphabetic, 0)
        tokens == [i \in 1..Len(runs) |-> Tok(runs[i].at, to_lowercase(runs[i].s))]
    IN IF self.base.preserve_patterns # <<>>
       THEN apply_preserve_patterns(tokens, self.base.preserve_patterns, s,
                                    self.base.config)
       ELSE tokens

\* lowercase.rs 17-49
LowercaseTokenizer_tokenize(self, s) ==
    LET runs == SplitRuns(s, NonAlphabetic, 0)
        tokens == [i \in 1..Len(runs) |-> Tok(runs[i].at, to_lowercase(runs[i].s))]
        modified_config == [self.base.config EXCEPT !.lowercase = TRUE]
    IN IF self.base.preserve_patterns # <<>>
       THEN apply_preserve_patterns(tokens, self.base.preserve_patterns, s,
                                    modified_config)
       ELSE tokens

\* unicode.rs and pattern.rs call apply_preserve_patterns(tokens, patterns, text),
\* without a configuration, and post-process its whole result themselves: the
\* overlay is handed a configuration that asks for nothing.
NoProcessing == [lowercase |-> FALSE, remove_punctuation |-> FALSE]

UnicodeTokenizer_new(config) ==
    [tag |-> "Unicode", config |-> config,
     preserve_patterns |-> compile_preserve_patterns(config)]

UnicodeTokenizer_tokenize(self, s) ==
    IF self.preserve_patterns # <<>>
    THEN post_process(apply_preserve_patterns(unicode_words(s, 0),
                                              self.preserve_patterns, s, NoProcessing),
                      self.config)
    ELSE post_process(unicode_words(s, 0), self.config)

\* Err when the main regex does not compile
PatternTokenizer_new(regex, config) ==
    IF ~compiles(regex)
    THEN [ok |-> FALSE, err |-> [kind |-> "InvalidRegex", pattern |-> regex]]
    ELSE [ok |-> TRUE,
          val |-> [tag |-> "Pattern", config |-> config, pattern |-> regex,
                   preserve_patterns |-> compile_preserve_patterns(config)]]

PatternTokenizer_tokenize(self, s) ==
    LET found == find_iter(self.pattern, s)
        tokens == [i \in 1..Len(found) |->
                      Tok(found[i][1], Slice(s, found[i][1], found[i][2]))]
        overlaid == IF self.preserve_patterns # <<>>
                    THEN apply_preserve_patterns(tokens, self.preserve_patterns, s,
                                                 NoProcessing)
                    ELSE tokens
    IN post_process(overlaid, self.config)

\* str::trim, as the slice and its offset
RECURSIVE TrimStart(_, _)
TrimStart(s, i) == IF i < Len(s) /\ is_whitespace(s[i + 1]) THEN TrimStart(s, i + 1) ELSE i

RECURSIVE TrimEnd(_, _)
TrimEnd(s, j) == IF j > 0 /\ is_whitespace(s[j]) THEN TrimEnd(s, j - 1) ELSE j

trim(s) ==
    LET i == TrimStart(s, 0)
        j == TrimEnd(s, Len(s))
    IN IF i >= j THEN Tok(i, <<>>) ELSE Tok(i, Slice(s, i, j))

KeywordTokenizer_new(config) == [tag |-> "Keyword", config |-> config]

KeywordTokenizer_tokenize(self, s) ==
    LET trimmed == trim(s)
    IN IF trimmed.s = <<>> THEN <<>>
       ELSE post_process(<<trimmed>>, self.config)

GraphemeTokenizer_new(config, extended) ==
    [tag |-> "Grapheme", config |-> config, extended |-> extended]

\* over this alphabet every character is a grapheme cluster of its own, under
\* the extended and the legacy rules alike
GraphemeTokenizer_tokenize(self, s) ==
    post_process([i \in 1..Len(s) |-> Tok(i - 1, <<s[i]>>)], self.config)

(***************************************************************************)
(* edge_ngram.rs and ngram.rs.  A word is handed on as its characters and  *)
(* the offset of each of them in the text (offs), so that a gram keeps the *)
(* offset of its first character when punctuation was filtered out.        *)
(***************************************************************************)
EdgeNgramTokenizer_new(config, min_gram, max_gram) ==
    LET min == Max(min_gram, 1)
        max == Max(max_gram, min)
    IN [tag |-> "EdgeNgram", config |-> config, min_gram |-> min, max_gram |-> max]

NgramTokenizer_new(config, min_gram, max_gram) ==
    LET min == Max(min_gram, 1)
        max == Max(max_gram, min)
    IN [tag |-> "Ngram", config |-> config, min_gram |-> min, max_gram |-> max]

\* generate_edge_ngrams that starts at size 1 whatever min_gram is
generate_edge_ngrams_from_one(self, chars, offs) ==
    LET text_len == Len(chars)
        max == Min(self.max_gram, text_len)
    IN IF text_len = 0 THEN <<>>
       ELSE [g \in 1..max |-> Tok(offs[1], SubSeq(chars, 1, g))]

\* edge_ngram.rs 19-36
generate_edge_ngrams(self, chars, offs) ==
    LET text_len == Len(chars)
        max == Min(self.max_gram, text_len)
    IN IF text_len = 0 THEN <<>>
       ELSE [g \in 1..(max - self.min_gram + 1) |->
                Tok(offs[1], SubSeq(chars, 1, self.min_gram + g - 1))]

\* generate_ngrams with the loops exchanged: for each start offset, the grams
\* of every size that fit there
generate_ngrams_by_start(self, chars, offs) ==
    LET text_len == Len(chars)
        max == Min(self.max_gram, text_len)
    IN IF text_len = 0 THEN <<>>
       ELSE Flatten([k \in 1..text_len |->
                [g \in 1..(Min(max, text_len - k + 1) - self.min_gram + 1) |->
                    Tok(offs[k], SubSeq(chars, k, k + self.min_gram + g - 2))]])

\* ngram.rs 23-42
generate_ngrams(self, chars, offs) ==
    LET text_len == Len(chars)
        max == Min(self.max_gram, text_len)
    IN IF text_len = 0 THEN <<>>
       ELSE Flatten([g \in 1..(max - self.min_gram + 1) |->
                LET gram_size == self.min_gram + g - 1
                IN [k \in 1..(text_len - gram_size + 1) |->
                       \* start = k - 1
                       Tok(offs[k], SubSeq(chars, k, k + gram_size - 1))]])

\* the processed word: its characters and their offsets
processed_word(self, word) ==
    LET idx == IF self.config.remove_punctuation
               THEN SelectSeq([i \in 1..Len(word.s) |-> i],
                              LAMBDA i : ~is_ascii_punctuation(word.s[i]))
               ELSE [i \in 1..Len(word.s) |-> i]
    IN [chars |-> [i \in 1..Len(idx) |-> word.s[idx[i]]],
        offs |-> [i \in 1..Len(idx) |-> word.at + idx[i] - 1]]

lowercase_if_configured(self, tokens) ==
    IF self.config.lowercase
    THEN [i \in 1..Len(tokens) |-> Tok(tokens[i].at, to_lowercase(tokens[i].s))]
    ELSE tokens

EdgeNgramTokenizer_tokenize(self, s) ==
    LET words == split_whitespace(s, 0)
        all_ngrams == Flatten([w \in 1..Len(words) |->
                          LET pw == processed_word(self, words[w])
                          IN IF words[w].s = <<>> \/ pw.chars = <<>> THEN <<>>
                             ELSE generate_edge_ngrams(self, pw.chars, pw.offs)])
    IN lowercase_if_configured(self, all_ngrams)

NgramTokenizer_tokenize(self, s) ==
    LET words == split_whitespace(s, 0)
        all_ngrams == Flatten([w \in 1..Len(words) |->
                          LET pw == processed_word(self, words[w])
                          IN IF words[w].s = <<>> \/ pw.chars = <<>> THEN <<>>
                             ELSE generate_ngrams(self, pw.chars, pw.offs)])
    IN lowercase_if_configured(self, all_ngrams)

(***************************************************************************)
(* sentence.rs.  The alphabet has no sentence terminator, so               *)
(* unicode_sentences yields the whole text as one sentence when it holds a *)
(* letter, and nothing otherwise.                                          *)
(***************************************************************************)
unicode_sentences(s) ==
    IF \E i \in 1..Len(s) : is_alphanumeric(s[i]) THEN <<Tok(0, s)>> ELSE <<>>

SentenceTokenizer_new(config) ==
    [tag |-> "Sentence", config |-> config,
     preserve_patterns |-> compile_preserve_patterns(config)]

\* sentence.rs 50-57: the loop over the sorted spans from the i-th on;
\* <<result, pos>> when it ends
RECURSIVE sentence_loop(_, _, _, _, _)
sentence_loop(preserved_spans, i, result, pos, sentence) ==
    IF i > Len(preserved_spans) THEN <<result, pos>>
    ELSE sentence_loop(
             preserved_spans, i + 1,
             result
                 \o (IF preserved_spans[i][1] > pos
                     THEN to_lowercase(Slice(sentence, pos, preserved_spans[i][1]))
                     ELSE <<>>)
                 \o Slice(sentence, preserved_spans[i][1], preserved_spans[i][2]),
             Max(preserved_spans[i][2], pos), sentence)

\* sentence.rs 59-64: the text after the last span, lowercased
sentence_remaining(final, sentence) ==
    IF final[2] < Len(sentence)
    THEN final[1] \o to_lowercase(Slice(sentence, final[2], Len(sentence)))
    ELSE final[1]

\* sentence.rs 40-64: found holds every match of every pattern
sentence_spans(found, sentence) ==
    IF found = <<>> THEN sentence
    ELSE sentence_remaining(sentence_loop(sort_spans(found), 1, <<>>, 0, sentence),
                            sentence)

apply_patterns_to_sentence(self, sentence) ==
    IF self.preserve_patterns = <<>> \/ ~self.config.lowercase THEN sentence
    ELSE sentence_spans(collect_matches(self.preserve_patterns, sentence), sentence)

\* sentence.rs 84-90: punctuation filtered out, empty sentences dropped
strip_sentences(sentences) ==
    SelectSeq([i \in 1..Len(sentences) |->
                  Tok(sentences[i].at, Retain(sentences[i].s, Punctuation))],
              LAMBDA t : t.s # <<>>)

\* sentence.rs 78-81: apply_patterns_to_sentence on each sentence
map_sentences(self, sentences) ==
    [i \in 1..Len(sentences) |->
        Tok(sentences[i].at, apply_patterns_to_sentence(self, sentences[i].s))]

SentenceTokenizer_tokenize(self, s) ==
    IF self.preserve_patterns # <<>> /\ self.config.lowercase
    THEN IF self.config.remove_punctuation
         THEN strip_sentences(map_sentences(self, unicode_sentences(s)))
         ELSE map_sentences(self, unicode_sentences(s))
    ELSE post_process(unicode_sentences(s), self.config)

(***************************************************************************)
(* path_hierarchy.rs.  Paths are handled as plain character sequences;     *)
(* every token of a hierarchy is taken from the start of the trimmed path. *)
(***************************************************************************)
starts_with(s, prefix) ==
    Len(prefix) <= Len(s) /\ SubSeq(s, 1, Len(prefix)) = prefix

ends_with(s, suffix) ==
    Len(suffix) <= Len(s) /\ SubSeq(s, Len(s) - Len(suffix) + 1, Len(s)) = suffix

\* str::split(&delimiter): the pieces between the leftmost non-overlapping
\* occurrences of the delimiter (empty pieces included)
RECURSIVE split_from(_, _, _)
split_from(s, delim, i) ==
    LET m == find_at(Lit(delim), s, i)
    IN IF m = NoMatch THEN <<Slice(s, i, Len(s))>>
       ELSE <<Slice(s, i, m[1])>> \o split_from(s, delim, m[2])

split(s, delim) ==
    IF delim = <<>>
    THEN <<<<>>>> \o [i \in 1..Len(s) |-> <<s[i]>>] \o <<<<>>>>
    ELSE split_from(s, delim, 0)

RECURSIVE join(_, _)
join(parts, delim) ==
    IF parts = <<>> THEN <<>>
    ELSE IF Len(parts) = 1 THEN Head(parts)
         ELSE Head(parts) \o delim \o join(Tail(parts), delim)

PathHierarchyTokenizer_new(config, delimiter) ==
    [tag |-> "PathHierarchy", base |-> BaseTokenizerFields_new(config),
     delimiter |-> delimiter]

generate_hierarchy(self, path) ==
    LET parts == split(path, self.delimiter)
        starts_with_delimiter == starts_with(path, self.delimiter)
        \* <<tokens, current_path>> after the first i parts
        loop[i \in 0..Len(parts)] ==
            IF i = 0 THEN <<<<>>, <<>>>>
            ELSE IF parts[i] = <<>> THEN loop[i - 1]
                 ELSE LET prev == loop[i - 1]
                          current_path == prev[2]
                          joined == IF current_path # <<>>
                                    THEN current_path \o self.delimiter
                                    ELSE IF starts_with_delimiter
                                         THEN self.delimiter
                                         ELSE current_path
                      IN <<Append(prev[1], joined \o parts[i]),
                           joined \o parts[i]>>
    IN loop[Len(parts)][1]

any_pattern_matches(self, part) ==
    \E k \in 1..Len(self.base.preserve_patterns) :
        is_match(self.base.preserve_patterns[k], part)

\* path_hierarchy.rs 100-136: lowercase a token part by part
lowercase_hierarchy_token(self, token) ==
    LET starts_with_delim == starts_with(token, self.delimiter)
        parts == split(token, self.delimiter)
        \* the string built after the parts 0..i-1
        loop[i \in 0..Len(parts)] ==
            IF i = 0 THEN <<>>
            ELSE LET lowercased == loop[i - 1]
                     part == parts[i]
                 IN IF part = <<>>
                    THEN IF i = 1 /\ starts_with_delim
                         THEN lowercased \o self.delimiter
                         ELSE lowercased
                    ELSE LET sep == IF (i > 1 \/ starts_with_delim)
                                       /\ lowercased # <<>>
                                       /\ ~ends_with(lowercased, self.delimiter)
                                    THEN self.delimiter ELSE <<>>
                         IN lowercased \o sep \o
                            (IF any_pattern_matches(self, part)
                             THEN part ELSE to_lowercase(part))
    IN loop[Len(parts)]

\* path_hierarchy.rs 54-59: some pattern's first match in the token is the
\* whole token
whole_match(self, token) ==
    \E k \in 1..Len(self.base.preserve_patterns) :
        /\ find(self.base.preserve_patterns[k], token) # NoMatch
        /\ find(self.base.preserve_patterns[k], token) = <<0, Len(token)>>

\* path_hierarchy.rs 50-61
preserved_hierarchy_tokens(self, all_tokens) ==
    {all_tokens[j] : j \in {i \in 1..Len(all_tokens) : whole_match(self, all_tokens[i])}}

\* path_hierarchy.rs 68-96
should_include(token, preserved_tokens) ==
    \/ token \in preserved_tokens
    \/ \E pr \in preserved_tokens : starts_with(token, pr) /\ Len(token) > Len(pr)
    \/ ~\E pr \in preserved_tokens : starts_with(pr, token) /\ pr # token

\* path_hierarchy.rs 98-140: the tokens kept, lowercased unless preserved
hierarchy_result(self, included, preserved_tokens) ==
    [i \in 1..Len(included) |->
        IF self.base.config.lowercase /\ included[i] \notin preserved_tokens
        THEN lowercase_hierarchy_token(self, included[i])
        ELSE included[i]]

\* path_hierarchy.rs 63-143
filter_hierarchy(self, all_tokens, preserved_tokens) ==
    hierarchy_result(self,
                     SelectSeq(all_tokens, LAMBDA t : should_include(t, preserved_tokens)),
                     preserved_tokens)

apply_patterns_to_hierarchy(self, s) ==
    IF self.base.preserve_patterns = <<>> THEN generate_hierarchy(self, s)
    ELSE filter_hierarchy(self, generate_hierarchy(self, s),
                          preserved_hierarchy_tokens(self, generate_hierarchy(self, s)))

\* path_hierarchy.rs 158-178: remove punctuation part by part
strip_hierarchy_token(self, token) ==
    LET parts == split(token, self.delimiter)
        delimiter_chars == {self.delimiter[i] : i \in 1..Len(self.delimiter)}
        processed == [i \in 1..Len(parts) |->
                         IF parts[i] = <<>> THEN <<>>
                         ELSE IF any_pattern_matches(self, parts[i]) THEN parts[i]
                              ELSE Retain(parts[i], Punctuation \ delimiter_chars)]
    IN join(processed, self.delimiter)

\* every token of a hierarchy starts where the trimmed path starts
at_start(at, strings) == [i \in 1..Len(strings) |-> Tok(at, strings[i])]

\* path_hierarchy.rs 158-178: strip each token, drop the empty ones and the
\* bare delimiter
strip_hierarchy(self, tokens) ==
    SelectSeq([i \in 1..Len(tokens) |-> strip_hierarchy_token(self, tokens[i])],
              LAMBDA x : x # <<>> /\ x # self.delimiter)

\* path_hierarchy.rs 154-184, on the trimmed text
tokenize_trimmed(self, trimmed) ==
    IF trimmed.s = <<>> THEN <<>>
    ELSE IF self.base.preserve_patterns # <<>>
         THEN IF self.base.config.remove_punctuation
              THEN at_start(trimmed.at,
                            strip_hierarchy(self,
                                            apply_patterns_to_hierarchy(self, trimmed.s)))
              ELSE at_start(trimmed.at, apply_patterns_to_hierarchy(self, trimmed.s))
         ELSE post_process_with_preserved(
                  at_start(trimmed.at, generate_hierarchy(self, trimmed.s)),
                  self.base.config,
                  {self.delimiter[i] : i \in 1..Len(self.delimiter)})

PathHierarchyTokenizer_tokenize(self, s) == tokenize_trimmed(self, trim(s))

(***************************************************************************)
(* url_email.rs.  linkify's LinkFinder is a dependency; over this alphabet *)
(* a link is letters, "@", letters (an e-mail address without its dot),    *)
(* found left to right without overlap.                                    *)
(***************************************************************************)
RECURSIVE LettersEnd(_, _)
LettersEnd(s, i) ==
    IF i < Len(s) /\ is_alphanumeric(s[i + 1]) THEN LettersEnd(s, i + 1) ELSE i

RECURSIVE links_from(_, _)
links_from(s, i) ==
    LET starts_here(j) == /\ LettersEnd(s, j) > j
                          /\ LettersEnd(s, j) < Len(s)
                          /\ s[LettersEnd(s, j) + 1] = "@"
                          /\ LettersEnd(s, LettersEnd(s, j) + 1) > LettersEnd(s, j) + 1
        hits == {j \in i..Len(s) : starts_here(j)}
    IN IF hits = {} THEN <<>>
       ELSE LET j == CHOOSE x \in hits : \A y \in hits : x <= y
                e == LettersEnd(s, LettersEnd(s, j) + 1)
            IN <<<<j, e, Slice(s, j, e)>>>> \o links_from(s, e)

UrlEmailTokenizer_new(config) ==
    [tag |-> "UrlEmail", config |-> config,
     preserve_patterns |-> compile_preserve_patterns(config)]

extract_url_email_spans(self, s) == links_from(s, 0)

\* url_email.rs 73-80 and 95-103: the words of text[pos..start], none when
\* the slice is empty
url_email_gap(self, s, pos, start) ==
    IF start > pos
    THEN post_process(unicode_words(Slice(s, pos, start), pos), self.config)
    ELSE <<>>

\* url_email.rs 84-90: a span is lowercased unless a preserve pattern matches it
url_email_preserved(self, url_or_email) ==
    IF self.config.lowercase
       /\ ~\E k \in 1..Len(self.preserve_patterns) :
              is_match(self.preserve_patterns[k], url_or_email)
    THEN to_lowercase(url_or_email)
    ELSE url_or_email

\* url_email.rs 72-93: the loop over the spans from the i-th on; <<result, pos>>
\* when it ends
RECURSIVE url_email_loop(_, _, _, _, _, _)
url_email_loop(self, spans, i, result, pos, s) ==
    IF i > Len(spans) THEN <<result, pos>>
    ELSE url_email_loop(
             self, spans, i + 1,
             result \o url_email_gap(self, s, pos, spans[i][1])
                    \o <<Tok(spans[i][1], url_email_preserved(self, spans[i][3]))>>,
             spans[i][2], s)

\* url_email.rs 95-105: the text after the last span
url_email_remaining(self, final, s) ==
    final[1] \o url_email_gap(self, s, final[2], Len(s))

\* url_email.rs 57-105: spans holds the merged spans
tokenize_spans(self, spans, s) ==
    IF spans = <<>> THEN post_process(unicode_words(s, 0), self.config)
    ELSE url_email_remaining(self, url_email_loop(self, spans, 1, <<>>, 0, s), s)

\* url_email.rs 49-53: a match of a preserve pattern as a span with its text
match_spans(found, s) ==
    [i \in 1..Len(found) |->
        <<found[i][1], found[i][2], Slice(s, found[i][1], found[i][2])>>]

\* url_email.rs 56-61
merge_if_any(spans) ==
    IF spans # <<>> THEN merge_overlapping_spans(spans) ELSE spans

UrlEmailTokenizer_tokenize(self, s) ==
    tokenize_spans(self,
                   merge_if_any(extract_url_email_spans(self, s)
                                \o match_spans(collect_matches(self.preserve_patterns, s),
                                               s)),
                   s)

(***************************************************************************)
(* tokenizer/mod.rs: the factory, and the dispatch of Tokenizer::tokenize. *)
(* A strategy is a record [tag, ...] with the fields of its enum variant.  *)
(***************************************************************************)
Ok(v) == [ok |-> TRUE, val |-> v]

Err(e) == [ok |-> FALSE, err |-> e]

from_config(config) ==
    LET strategy == config.strategy
    IN CASE strategy.tag = "Whitespace" -> Ok(WhitespaceTokenizer_new(config))
         [] strategy.tag = "Unicode" -> Ok(UnicodeTokenizer_new(config))
         [] strategy.tag = "Pattern" -> PatternTokenizer_new(strategy.regex, config)
         [] strategy.tag = "Sentence" -> Ok(SentenceTokenizer_new(config))
         [] strategy.tag = "Grapheme" ->
                Ok(GraphemeTokenizer_new(config, strategy.extended))
         [] strategy.tag = "Keyword" -> Ok(KeywordTokenizer_new(config))
         [] strategy.tag = "EdgeNgram" ->
                Ok(EdgeNgramTokenizer_new(config, strategy.min_gram, strategy.max_gram))
         [] strategy.tag = "PathHierarchy" ->
                Ok(PathHierarchyTokenizer_new(config, strategy.delimiter))
         [] strategy.tag = "UrlEmail" -> Ok(UrlEmailTokenizer_new(config))
         [] strategy.tag = "Ngram" ->
                Ok(NgramTokenizer_new(config, strategy.min_gram, strategy.max_gram))
         [] strategy.tag = "CharGroup" ->
                Ok(CharGroupTokenizer_new(config, strategy.split_on_chars))
         [] strategy.tag = "Letter" -> Ok(LetterTokenizer_new(config))
         [] strategy.tag = "Lowercase" -> Ok(LowercaseTokenizer_new(config))

\* dyn Tokenizer::tokenize
Tokenizer_tokenize(self, s) ==
    CASE self.tag = "Whitespace" -> WhitespaceTokenizer_tokenize(self, s)
      [] self.tag = "Unicode" -> UnicodeTokenizer_tokenize(self, s)
      [] self.tag = "Pattern" -> PatternTokenizer_tokenize(self, s)
      [] self.tag = "Sentence" -> SentenceTokenizer_tokenize(self, s)
      [] self.tag = "Grapheme" -> GraphemeTokenizer_tokenize(self, s)
      [] self.tag = "Keyword" -> KeywordTokenizer_tokenize(self, s)
      [] self.tag = "EdgeNgram" -> EdgeNgramTokenizer_tokenize(self, s)
      [] self.tag = "PathHierarchy" -> PathHierarchyTokenizer_tokenize(self, s)
      [] self.tag = "UrlEmail" -> UrlEmailTokenizer_tokenize(self, s)
      [] self.tag = "Ngram" -> NgramTokenizer_tokenize(self, s)
      [] self.tag = "CharGroup" -> CharGroupTokenizer_tokenize(self, s)
      [] self.tag = "Letter" -> LetterTokenizer_tokenize(self, s)
      [] self.tag = "Lowercase" -> LowercaseTokenizer_tokenize(self, s)

(***************************************************************************)
(* lib.rs: configurations and the Ruby hash they are read from.  A hash is *)
(* a function from the keys it holds to their values.                      *)
(***************************************************************************)
\* config.rs: impl Default for TokenizerConfig
TokenizerConfig_default ==
    [strategy |-> [tag |-> "Unicode"], lowercase |-> TRUE,
     remove_punctuation |-> FALSE, preserve_patterns |-> <<>>]

\* lib.rs: the initializer of DEFAULT_CONFIG
DEFAULT_CONFIG_initial ==
    [strategy |-> [tag |-> "Unicode"], lowercase |-> TRUE,
     remove_punctuation |-> FALSE, preserve_patterns |-> <<>>]

DEFAULT_MIN_GRAM == 2

DEFAULT_MAX_GRAM == 10

has(h, key) == key \in DOMAIN h

get_or(h, key, default) == IF has(h, key) THEN h[key] ELSE default

\* lib.rs 126-211
parse_strategy(h) ==
    IF ~has(h, "strategy") THEN Ok([tag |-> "Unicode"])
    ELSE LET strategy_str == h["strategy"]
         IN CASE strategy_str = "whitespace" -> Ok([tag |-> "Whitespace"])
              [] strategy_str = "unicode" -> Ok([tag |-> "Unicode"])
              [] strategy_str = "pattern" ->
                     IF ~has(h, "regex") THEN Err([kind |-> "InvalidConfiguration"])
                     ELSE Ok([tag |-> "Pattern", regex |-> h["regex"]])
              [] strategy_str = "sentence" -> Ok([tag |-> "Sentence"])
              [] strategy_str = "grapheme" ->
                     Ok([tag |-> "Grapheme", extended |-> get_or(h, "extended", TRUE)])
              [] strategy_str = "keyword" -> Ok([tag |-> "Keyword"])
              [] strategy_str = "edge_ngram" ->
                     Ok([tag |-> "EdgeNgram",
                         min_gram |-> get_or(h, "min_gram", DEFAULT_MIN_GRAM),
                         max_gram |-> get_or(h, "max_gram", DEFAULT_MAX_GRAM)])
              [] strategy_str = "path_hierarchy" ->
                     Ok([tag |-> "PathHierarchy",
                         delimiter |-> get_or(h, "delimiter", <<"/">>)])
              [] strategy_str = "url_email" -> Ok([tag |-> "UrlEmail"])
              [] strategy_str = "ngram" ->
                     Ok([tag |-> "Ngram",
                         min_gram |-> get_or(h, "min_gram", DEFAULT_MIN_GRAM),
                         max_gram |-> get_or(h, "max_gram", DEFAULT_MAX_GRAM)])
              [] strategy_str = "char_group" ->
                     Ok([tag |-> "CharGroup",
                         split_on_chars |->
                             get_or(h, "split_on_chars", <<" ", "\t", "\n", "\r">>)])
              [] strategy_str = "letter" -> Ok([tag |-> "Letter"])
              [] strategy_str = "lowercase" -> Ok([tag |-> "Lowercase"])
              [] OTHER -> Err([kind |-> "UnknownStrategy", name |-> strategy_str])

\* validate_strategy with the test of the Pattern strategy's regex left out
validate_strategy_without_regex(strategy) ==
    CASE strategy.tag \in {"EdgeNgram", "Ngram"} ->
             IF strategy.min_gram = 0 \/ strategy.min_gram > strategy.max_gram
             THEN Err([kind |-> "InvalidNgramConfig",
                       min |-> strategy.min_gram, max |-> strategy.max_gram])
             ELSE Ok("unit")
      [] strategy.tag = "PathHierarchy" ->
             IF strategy.delimiter = <<>>
             THEN Err([kind |-> "EmptyDelimiter", tokenizer |-> "PathHierarchy"])
             ELSE Ok("unit")
      [] OTHER -> Ok("unit")

\* validate_strategy with the min_gram > max_gram test left out
validate_strategy_min_only(strategy) ==
    CASE strategy.tag \in {"EdgeNgram", "Ngram"} ->
             IF strategy.min_gram = 0
             THEN Err([kind |-> "InvalidNgramConfig",
                       min |-> strategy.min_gram, max |-> strategy.max_gram])
             ELSE Ok("unit")
      [] strategy.tag = "PathHierarchy" ->
             IF strategy.delimiter = <<>>
             THEN Err([kind |-> "EmptyDelimiter", tokenizer |-> "PathHierarchy"])
             ELSE Ok("unit")
      [] strategy.tag = "Pattern" ->
             IF ~compiles(strategy.regex)
             THEN Err([kind |-> "InvalidRegex", pattern |-> strategy.regex])
             ELSE Ok("unit")
      [] OTHER -> Ok("unit")

\* lib.rs 258-288: the rule of the strategy
validate_strategy(strategy) ==
    CASE strategy.tag \in {"EdgeNgram", "Ngram"} ->
             IF strategy.min_gram = 0
             THEN Err([kind |-> "InvalidNgramConfig",
                       min |-> strategy.min_gram, max |-> strategy.max_gram])
             ELSE IF strategy.min_gram > strategy.max_gram
                  THEN Err([kind |-> "InvalidNgramConfig",
                            min |-> strategy.min_gram, max |-> strategy.max_gram])
                  ELSE Ok("unit")
      [] strategy.tag = "PathHierarchy" ->
             IF strategy.delimiter = <<>>
             THEN Err([kind |-> "EmptyDelimiter", tokenizer |-> "PathHierarchy"])
             ELSE Ok("unit")
      [] strategy.tag = "Pattern" ->
             IF ~compiles(strategy.regex)
             THEN Err([kind |-> "InvalidRegex", pattern |-> strategy.regex])
             ELSE Ok("unit")
      [] OTHER -> Ok("unit")

\* lib.rs 290-296: the first preserve pattern that does not compile
RECURSIVE validate_preserve_patterns(_)
validate_preserve_patterns(patterns) ==
    IF patterns = <<>> THEN Ok("unit")
    ELSE IF ~compiles(Head(patterns))
         THEN Err([kind |-> "InvalidRegex", pattern |-> Head(patterns)])
         ELSE validate_preserve_patterns(Tail(patterns))

\* then_preserve_patterns with the two steps in the other order: the preserve
\* patterns are examined before the result of the strategy's rule
preserve_patterns_then_strategy(checked, config) ==
    IF ~validate_preserve_patterns(config.preserve_patterns).ok
    THEN validate_preserve_patterns(config.preserve_patterns)
    ELSE checked

\* lib.rs 258-296: the rule of the strategy has been applied, with result
\* checked; the preserve patterns follow when it passed
then_preserve_patterns(checked, config) ==
    IF ~checked.ok THEN checked
    ELSE validate_preserve_patterns(config.preserve_patterns)

\* validate_config with the loop over the preserve patterns left out
validate_config_strategy_only(config) == validate_strategy(config.strategy)

\* lib.rs 255-299
validate_config(config) ==
    then_preserve_patterns(validate_strategy(config.strategy), config)

\* validated that hands the configuration on whatever validate_config found
validated_unchecked(config, checked) == Ok(config)

\* lib.rs 248-251: validate_config(&config)?; Ok(config)
validated(config, checked) == IF ~checked.ok THEN checked ELSE Ok(config)

\* lib.rs 213-251: the strategy has been parsed
with_strategy(h, strategy) ==
    IF ~strategy.ok THEN strategy
    ELSE validated([strategy |-> strategy.val,
                    lowercase |-> get_or(h, "lowercase", TRUE),
                    remove_punctuation |-> get_or(h, "remove_punctuation", FALSE),
                    preserve_patterns |-> get_or(h, "preserve_patterns", <<>>)],
                   validate_config([strategy |-> strategy.val,
                                    lowercase |-> get_or(h, "lowercase", TRUE),
                                    remove_punctuation |->
                                        get_or(h, "remove_punctuation", FALSE),
                                    preserve_patterns |->
                                        get_or(h, "preserve_patterns", <<>>)]))

parse_config_from_hash(h) == with_strategy(h, parse_strategy(h))

strategy_name(strategy) ==
    CASE strategy.tag = "Whitespace" -> "whitespace"
      [] strategy.tag = "Unicode" -> "unicode"
      [] strategy.tag = "Pattern" -> "pattern"
      [] strategy.tag = "Sentence" -> "sentence"
      [] strategy.tag = "Grapheme" -> "grapheme"
      [] strategy.tag = "Keyword" -> "keyword"
      [] strategy.tag = "EdgeNgram" -> "edge_ngram"
      [] strategy.tag = "Ngram" -> "ngram"
      [] strategy.tag = "PathHierarchy" -> "path_hierarchy"
      [] strategy.tag = "UrlEmail" -> "url_email"
      [] strategy.tag = "CharGroup" -> "char_group"
      [] strategy.tag = "Letter" -> "letter"
      [] strategy.tag = "Lowercase" -> "lowercase"

\* the keys config_to_hash sets for the strategy's parameters
strategy_params(strategy) ==
    CASE strategy.tag = "Pattern" -> [regex |-> strategy.regex]
      [] strategy.tag = "Grapheme" -> [extended |-> strategy.extended]
      [] strategy.tag \in {"EdgeNgram", "Ngram"} ->
             [min_gram |-> strategy.min_gram, max_gram |-> strategy.max_gram]
      [] strategy.tag = "PathHierarchy" -> [delimiter |-> strategy.delimiter]
      [] strategy.tag = "CharGroup" -> [split_on_chars |-> strategy.split_on_chars]
      [] OTHER -> <<>>

\* config_to_hash with the parameters of the strategy left out
config_to_hash_without_params(config) ==
    [strategy |-> strategy_name(config.strategy)]
        @@ [lowercase |-> config.lowercase,
            remove_punctuation |-> config.remove_punctuation,
            preserve_patterns |-> config.preserve_patterns]

\* lib.rs 66-122
config_to_hash(config) ==
    [strategy |-> strategy_name(config.strategy)]
        @@ strategy_params(config.strategy)
        @@ [lowercase |-> config.lowercase,
            remove_punctuation |-> config.remove_punctuation,
            preserve_patterns |-> config.preserve_patterns]

(***************************************************************************)
(* lib.rs: the entry points, as actions.  Each records what was called     *)
(* with what and what came back.                                           *)
(***************************************************************************)
\* the holder of a Mutex that is not locked
NoThread == 0

NoHash == <<>>

NoText == <<>>

Returned(o, t, h, r, st, b) ==
    /\ op' = o
    /\ text' = t
    /\ hash' = h
    /\ ret' = r
    /\ starts' = st
    /\ built' = b
    /\ prev_default' = DEFAULT_CONFIG

\* lib.rs 30 and 314: Ok(tokenizer.tokenize(&text))
return_tokens(o, t, h, tokens) ==
    Returned(o, t, h, Ok(Strs(tokens)), Ats(tokens), TRUE)

\* lib.rs 27-30 and 311-314: the tokenizer built, or the error of from_config
run_tokenizer(o, t, h, tokenizer) ==
    IF tokenizer.ok
    THEN return_tokens(o, t, h, Tokenizer_tokenize(tokenizer.val, t))
    ELSE Returned(o, t, h, Err(tokenizer.err), <<>>, TRUE)

\* lib.rs 19-31
tokenize(t) ==
    /\ run_tokenizer("tokenize", t, NoHash, from_config(DEFAULT_CONFIG))
    /\ UNCHANGED DEFAULT_CONFIG

\* store_config that falls back to the factory defaults when the hash is refused
store_config_or_reset(o, h, config) ==
    IF config.ok
    THEN /\ DEFAULT_CONFIG' = config.val
         /\ Returned(o, NoText, h, Ok("unit"), <<>>, FALSE)
    ELSE /\ DEFAULT_CONFIG' = TokenizerConfig_default
         /\ Returned(o, NoText, h, Err(config.err), <<>>, FALSE)

\* lib.rs 37-43: the parsed configuration is stored, or its error returned
store_config(o, h, config) ==
    IF config.ok
    THEN /\ DEFAULT_CONFIG' = config.val
         /\ Returned(o, NoText, h, Ok("unit"), <<>>, FALSE)
    ELSE /\ UNCHANGED DEFAULT_CONFIG
         /\ Returned(o, NoText, h, Err(config.err), <<>>, FALSE)

\* lib.rs 34-44
configure(config_hash) ==
    store_config("configure", config_hash, parse_config_from_hash(config_hash))

\* reset that restores the strategy and leaves the other fields as stored
reset_strategy_only ==
    /\ DEFAULT_CONFIG' = [DEFAULT_CONFIG EXCEPT !.strategy = [tag |-> "Unicode"]]
    /\ Returned("reset", NoText, NoHash, Ok("unit"), <<>>, FALSE)

\* lib.rs 47-53
reset ==
    /\ DEFAULT_CONFIG' = TokenizerConfig_default
    /\ Returned("reset", NoText, NoHash, Ok("unit"), <<>>, FALSE)

\* lib.rs 56-63
config_hash ==
    /\ Returned("config_hash", NoText, NoHash, Ok(config_to_hash(DEFAULT_CONFIG)),
                <<>>, FALSE)
    /\ UNCHANGED DEFAULT_CONFIG

\* lib.rs 302-304: load_config is configure under another name
load_config(config_hash_arg) ==
    store_config("load_config", config_hash_arg,
                 parse_config_from_hash(config_hash_arg))

\* lib.rs 308-314: the hash has been parsed
with_config(t, h, config) ==
    IF ~config.ok
    THEN Returned("tokenize_with_config", t, h, Err(config.err), <<>>, FALSE)
    ELSE run_tokenizer("tokenize_with_config", t, h, from_config(config.val))

\* lib.rs 307-315
tokenize_with_config(t, config_hash_arg) ==
    /\ with_config(t, config_hash_arg, parse_config_from_hash(config_hash_arg))
    /\ UNCHANGED DEFAULT_CONFIG

(***************************************************************************)
(* The inputs.                                                             *)
(***************************************************************************)
MaxGram == 2

Flags == [lowercase : BOOLEAN, remove_punctuation : BOOLEAN]

\* a hash with every key of the strategy `strat` and of the flags `f`
HashOf(strat, f, patterns) ==
    strat @@ [lowercase |-> f.lowercase,
              remove_punctuation |-> f.remove_punctuation,
              preserve_patterns |-> patterns]

\* one or two hashes of each of the thirteen strategies, all valid
StrategyHashes ==
    {[strategy |-> s] : s \in {"whitespace", "unicode", "sentence", "keyword",
                               "url_email", "letter", "lowercase"}}
    \cup {[strategy |-> "pattern", regex |-> r] :
             r \in {Lit(<<"a">>), Star("a")}}
    \cup {[strategy |-> "grapheme", extended |-> TRUE]}
    \cup {h \in [strategy : {"edge_ngram", "ngram"},
                  min_gram : 1..MaxGram, max_gram : 1..MaxGram] :
              h.min_gram <= h.max_gram}
    \cup {[strategy |-> "path_hierarchy", delimiter |-> <<"-">>]}
    \cup {[strategy |-> "char_group", split_on_chars |-> c] : c \in {<<>>, <<"-">>}}

\* preserve patterns: a literal with a capital and a punctuation mark, a
\* one-letter literal, and a pattern that matches the empty string
PreservePool == {Lit(<<"A", "-">>), Lit(<<"A">>), Star("-")}

TokenizeHashes ==
    {HashOf(s, f, pp) : s \in StrategyHashes, f \in Flags,
                        pp \in {<<>>} \cup {<<p>> : p \in PreservePool}}

\* the strategies that hand their tokens to apply_preserve_patterns with their
\* configuration, and UrlEmail, which merges spans itself
OverlayStrategyHashes ==
    {[strategy |-> "whitespace"], [strategy |-> "letter"], [strategy |-> "url_email"],
     [strategy |-> "char_group", split_on_chars |-> <<"-">>]}

\* two literals that can overlap or touch, and an empty-matching pattern
OverlayPool == {Lit(<<"A", "a">>), Lit(<<"a", "-">>), Star("-")}

OverlayHashes ==
    {HashOf(s, f, pp) : s \in OverlayStrategyHashes, f \in Flags,
                        pp \in {<<p>> : p \in OverlayPool}
                               \cup {<<p, q>> : p \in OverlayPool, q \in OverlayPool}}

Spans == {sp \in (0..MaxLen) \X (0..MaxLen) : sp[1] <= sp[2]}

SpanLists == UNION {[1..n -> Spans] : n \in 0..MaxSpans}

\* hashes for the entry points that keep state: valid and invalid strategies,
\* absent keys, and preserve-pattern lists with sources that do not compile
ApiStrategyHashes ==
    {<<>>, [strategy |-> "bogus"],
     [strategy |-> "pattern"],
     [strategy |-> "pattern", regex |-> Lit(<<"a">>)],
     [strategy |-> "pattern", regex |-> Bad("(")],
     [strategy |-> "path_hierarchy", delimiter |-> <<>>],
     [strategy |-> "path_hierarchy", delimiter |-> <<"-">>],
     [strategy |-> "edge_ngram"], [strategy |-> "ngram", max_gram |-> 1],
     [strategy |-> "edge_ngram", min_gram |-> 0, max_gram |-> 5],
     [strategy |-> "whitespace", lowercase |-> FALSE, remove_punctuation |-> TRUE]}

ApiNgramHashes ==
    {[strategy |-> s, min_gram |-> a, max_gram |-> b] :
        s \in {"edge_ngram", "ngram"}, a \in 0..MaxGram, b \in 0..MaxGram}

ApiPreserveLists ==
    {<<Lit(<<"A", "-">>)>>, <<Bad("[")>>, <<Lit(<<"A", "-">>), Bad("[")>>,
     <<Bad("("), Bad("[")>>}

ApiHashes ==
    ApiStrategyHashes \cup ApiNgramHashes
    \cup {s @@ [preserve_patterns |-> pp] : s \in ApiStrategyHashes,
                                            pp \in ApiPreserveLists}
    \cup {s @@ [preserve_patterns |-> <<Bad("[")>>] : s \in ApiNgramHashes}

ApiTexts == {<<>>, <<"A", "-", "a">>}

(***************************************************************************)
(* Spec: the entry points of lib.rs called in any order.                   *)
(***************************************************************************)
Idle ==
    /\ DEFAULT_CONFIG = DEFAULT_CONFIG_initial
    /\ op = "none"
    /\ ret = Ok("unit")
    /\ starts = <<>>
    /\ built = FALSE
    /\ prev_default = DEFAULT_CONFIG_initial
    /\ spans_in = <<>>
    /\ spans_out = <<>>
    /\ threads = <<>>
    /\ mutex = NoThread
    /\ written = {DEFAULT_CONFIG_initial}

Init == Idle /\ text = NoText /\ hash = NoHash /\ pc = "api"

Tokenize ==
    /\ pc = "api"
    /\ \E t \in ApiTexts : tokenize(t)
    /\ UNCHANGED <<pc, spans_in, spans_out, threads, mutex, written>>

Configure ==
    /\ pc = "api"
    /\ \E h \in ApiHashes : configure(h)
    /\ UNCHANGED <<pc, spans_in, spans_out, threads, mutex, written>>

Reset == pc = "api" /\ reset /\ UNCHANGED <<pc, spans_in, spans_out, threads, mutex, written>>

ConfigHash == pc = "api" /\ config_hash /\ UNCHANGED <<pc, spans_in, spans_out, threads, mutex, written>>

LoadConfig ==
    /\ pc = "api"
    /\ \E h \in ApiHashes : load_config(h)
    /\ UNCHANGED <<pc, spans_in, spans_out, threads, mutex, written>>

TokenizeWithConfig ==
    /\ pc = "api"
    /\ \E t \in ApiTexts, h \in ApiHashes : tokenize_with_config(t, h)
    /\ UNCHANGED <<pc, spans_in, spans_out, threads, mutex, written>>

Next == Tokenize \/ Configure \/ Reset \/ ConfigHash \/ LoadConfig \/ TokenizeWithConfig

Spec == Init /\ [][Next]_vars

(***************************************************************************)
(* SpecTokenize, SpecOverlay: one call of tokenize_with_config on a text   *)
(* and a valid configuration chosen at the start.                          *)
(***************************************************************************)
RunTokenizeWithConfig ==
    /\ pc = "ready"
    /\ tokenize_with_config(text, hash)
    /\ pc' = "done"
    /\ UNCHANGED <<spans_in, spans_out, threads, mutex, written>>

InitTokenize == Idle /\ pc = "ready" /\ text \in Texts /\ hash \in TokenizeHashes

SpecTokenize == InitTokenize /\ [][RunTokenizeWithConfig]_vars

InitOverlay == Idle /\ pc = "ready" /\ text \in Texts /\ hash \in OverlayHashes

SpecOverlay == InitOverlay /\ [][RunTokenizeWithConfig]_vars

(***************************************************************************)
(* SpecMerge: merge_overlapping_spans_optimized on any list of spans.      *)
(***************************************************************************)
RunMerge ==
    /\ pc = "ready"
    /\ spans_out' = merge_overlapping_spans_optimized(spans_in)
    /\ pc' = "done"
    /\ UNCHANGED <<DEFAULT_CONFIG, op, text, hash, ret, starts, built,
                   prev_default, spans_in, threads, mutex, written>>

InitMerge ==
    /\ DEFAULT_CONFIG = DEFAULT_CONFIG_initial
    /\ op = "none"
    /\ ret = Ok("unit")
    /\ starts = <<>>
    /\ built = FALSE
    /\ prev_default = DEFAULT_CONFIG_initial
    /\ text = NoText
    /\ hash = NoHash
    /\ pc = "ready"
    /\ spans_in \in SpanLists
    /\ spans_out = <<>>
    /\ threads = <<>>
    /\ mutex = NoThread
    /\ written = {DEFAULT_CONFIG_initial}

SpecMerge == InitMerge /\ [][RunMerge]_vars

(***************************************************************************)
(* SpecRoundTrip: a configuration is stored with configure, described with *)
(* config_hash, and the description is handed to tokenize_with_config.     *)
(***************************************************************************)
RoundTripConfigure ==
    /\ pc = "ready"
    /\ configure(hash)
    /\ pc' = "configured"
    /\ UNCHANGED <<spans_in, spans_out, threads, mutex, written>>

RoundTripConfigHash ==
    /\ pc = "configured"
    /\ config_hash
    /\ pc' = "described"
    /\ UNCHANGED <<spans_in, spans_out, threads, mutex, written>>

RoundTripTokenize ==
    /\ pc = "described"
    /\ \E t \in Texts : tokenize_with_config(t, ret.val)
    /\ pc' = "done"
    /\ UNCHANGED <<spans_in, spans_out, threads, mutex, written>>

NextRoundTrip == RoundTripConfigure \/ RoundTripConfigHash \/ RoundTripTokenize

InitRoundTrip == Idle /\ pc = "ready" /\ text = NoText /\ hash \in TokenizeHashes

SpecRoundTrip == InitRoundTrip /\ [][NextRoundTrip]_vars

(***************************************************************************)
(* SpecUrlEmail: one call of tokenize_with_config with the UrlEmail        *)
(* strategy on a text that holds a link with a character before or after   *)
(* it.                                                                     *)
(***************************************************************************)
LinkTexts == {t \in [1..(MaxLen + 1) -> Chars] : links_from(t, 0) # <<>>}

UrlEmailHashes ==
    {HashOf([strategy |-> "url_email"], f, pp) :
        f \in Flags, pp \in {<<>>} \cup {<<p>> : p \in PreservePool}}

InitUrlEmail == Idle /\ pc = "ready" /\ text \in LinkTexts /\ hash \in UrlEmailHashes

SpecUrlEmail == InitUrlEmail /\ [][RunTokenizeWithConfig]_vars

(***************************************************************************)
(* SpecSentence: one call of tokenize_with_config with the Sentence        *)
(* strategy and one or two preserve patterns whose matches can overlap.    *)
(***************************************************************************)
SentenceHashes ==
    {HashOf([strategy |-> "sentence"], f, pp) :
        f \in Flags, pp \in {<<p>> : p \in OverlayPool}
                            \cup {<<p, q>> : p \in OverlayPool, q \in OverlayPool}}

InitSentence == Idle /\ pc = "ready" /\ text \in Texts /\ hash \in SentenceHashes

SpecSentence == InitSentence /\ [][RunTokenizeWithConfig]_vars

(***************************************************************************)
(* SpecHierarchy: one call of tokenize_with_config with the PathHierarchy  *)
(* strategy and a preserve pattern that can match a token of several       *)
(* levels.                                                                 *)
(***************************************************************************)
HierarchyPool == {Lit(<<"A", "-", "@">>), Lit(<<"A", "-", "a">>), Lit(<<"A">>)}

HierarchyHashes ==
    {HashOf([strategy |-> "path_hierarchy", delimiter |-> <<"-">>], f, <<p>>) :
        f \in Flags, p \in HierarchyPool}

InitHierarchy == Idle /\ pc = "ready" /\ text \in Texts /\ hash \in HierarchyHashes

SpecHierarchy == InitHierarchy /\ [][RunTokenizeWithConfig]_vars

(***************************************************************************)
(* SpecThreads: several threads call tokenize, config_hash, configure,     *)
(* load_config and reset at once.  DEFAULT_CONFIG sits in a Mutex; a       *)
(* clone of the configuration and an assignment to it move one field of    *)
(* the struct at a time, in the order config.rs declares the fields.       *)
(***************************************************************************)
MaxThreads == 2

Threads == 1..MaxThreads

\* config.rs 4-9: the fields of TokenizerConfig
Fields == <<"strategy", "lowercase", "remove_punctuation", "preserve_patterns">>

\* a thread outside every entry point: no locals
IdleThread == [pc |-> "idle", op |-> "none", arg |-> NoHash, i |-> 0, config |-> <<>>]

\* the hashes the threads configure: a valid configuration that differs
\* from the defaults in every field, and one that is rejected
ThreadHashes ==
    {[strategy |-> "whitespace", lowercase |-> FALSE, remove_punctuation |-> TRUE,
      preserve_patterns |-> <<Lit(<<"A", "-">>)>>],
     [strategy |-> "bogus"]}

ThreadTexts == {<<"A", "-", "a">>}

call_vars == <<op, text, hash, ret, starts, built, prev_default>>

set_thread(t, r) == threads' = [threads EXCEPT ![t] = r]

\* the thread enters the entry point o with the hash h; its first statement
\* that touches DEFAULT_CONFIG is the lock
enter(t, o, h, config) ==
    /\ threads[t].pc = "idle"
    /\ set_thread(t, [pc |-> "lock", op |-> o, arg |-> h, i |-> 0, config |-> config])
    /\ UNCHANGED <<DEFAULT_CONFIG, mutex, written, call_vars>>

\* lib.rs 19: tokenize is called
ThreadTokenize(t) == enter(t, "tokenize", NoHash, <<>>)

\* lib.rs 56: config_hash is called
ThreadConfigHash(t) == enter(t, "config_hash", NoHash, <<>>)

\* lib.rs 35: let config = parse_config_from_hash(config_hash)?
parsed(t, o, h, config) ==
    IF config.ok THEN enter(t, o, h, config.val)
    ELSE /\ threads[t].pc = "idle"
         /\ Returned(o, NoText, h, Err(config.err), <<>>, FALSE)
         /\ UNCHANGED <<DEFAULT_CONFIG, threads, mutex, written>>

\* lib.rs 34-35: configure is called
ThreadConfigure(t) ==
    \E h \in ThreadHashes : parsed(t, "configure", h, parse_config_from_hash(h))

\* lib.rs 302-304: load_config is called
ThreadLoadConfig(t) ==
    \E h \in ThreadHashes : parsed(t, "load_config", h, parse_config_from_hash(h))

\* lib.rs 47: reset is called
ThreadReset(t) == enter(t, "reset", NoHash, <<>>)

\* Mutex::lock without the wait for the lock to be free
lock_unguarded(t) ==
    /\ threads[t].pc = "lock"
    /\ mutex' = t
    /\ set_thread(t, [threads[t] EXCEPT !.pc = "locked"])
    /\ UNCHANGED <<DEFAULT_CONFIG, written, call_vars>>

\* lib.rs 21-22, 38-39, 48-49, 57-58: DEFAULT_CONFIG.lock() returns once no
\* other thread holds the lock
lock(t) ==
    /\ threads[t].pc = "lock"
    /\ mutex = NoThread
    /\ mutex' = t
    /\ set_thread(t, [threads[t] EXCEPT !.pc = "locked"])
    /\ UNCHANGED <<DEFAULT_CONFIG, written, call_vars>>

Readers == {"tokenize", "config_hash"}

\* lib.rs 24 and 60: .clone() copies the next field of the stored struct
clone_field(t, f) ==
    /\ set_thread(t, [threads[t] EXCEPT !.i = @ + 1,
                                        !.config = @ @@ (f :> DEFAULT_CONFIG[f])])
    /\ UNCHANGED <<DEFAULT_CONFIG, mutex, written, call_vars>>

ThreadClone(t) ==
    /\ threads[t].pc = "locked"
    /\ threads[t].op \in Readers
    /\ threads[t].i < Len(Fields)
    /\ clone_field(t, Fields[threads[t].i + 1])

\* lib.rs 24 and 60: the guard is a temporary of the let statement and is
\* dropped at its end, with the copy complete
ThreadUnlockRead(t) ==
    /\ threads[t].pc = "locked"
    /\ threads[t].op \in Readers
    /\ threads[t].i = Len(Fields)
    /\ mutex' = NoThread
    /\ set_thread(t, [threads[t] EXCEPT !.pc = "copied"])
    /\ UNCHANGED <<DEFAULT_CONFIG, written, call_vars>>

\* lib.rs 40 and 50: the value the thread is about to store
new_value(t) ==
    IF threads[t].op = "reset" THEN TokenizerConfig_default ELSE threads[t].config

\* the set of stored configurations once field number i of value is in place
written_after(i, value) ==
    IF i = Len(Fields) THEN written \cup {value} ELSE written

\* lib.rs 40 and 50: *default = ... moves the next field into the struct
assign_field(t, f, value) ==
    /\ DEFAULT_CONFIG' = [DEFAULT_CONFIG EXCEPT ![f] = value[f]]
    /\ set_thread(t, [threads[t] EXCEPT !.i = @ + 1])
    /\ written' = written_after(threads[t].i + 1, value)
    /\ UNCHANGED <<mutex, call_vars>>

ThreadAssign(t) ==
    /\ threads[t].pc = "locked"
    /\ threads[t].op \notin Readers
    /\ threads[t].i < Len(Fields)
    /\ assign_field(t, Fields[threads[t].i + 1], new_value(t))

\* lib.rs 42-44 and 51-53: Ok(()) and the guard dropped at the end of the
\* function
ThreadUnlockWrite(t) ==
    /\ threads[t].pc = "locked"
    /\ threads[t].op \notin Readers
    /\ threads[t].i = Len(Fields)
    /\ mutex' = NoThread
    /\ set_thread(t, IdleThread)
    /\ Returned(threads[t].op, NoText, threads[t].arg, Ok("unit"), <<>>, FALSE)
    /\ UNCHANGED <<DEFAULT_CONFIG, written>>

\* lib.rs 27-30: the tokenizer is built and run on the text, or the error of
\* from_config returned
ThreadRunTokenizer(t) ==
    /\ threads[t].pc = "copied"
    /\ threads[t].op = "tokenize"
    /\ \E s \in ThreadTexts :
          run_tokenizer("tokenize", s, NoHash, from_config(threads[t].config))
    /\ set_thread(t, IdleThread)
    /\ UNCHANGED <<DEFAULT_CONFIG, mutex, written>>

\* lib.rs 62: config_to_hash(&config) on the thread's copy
ThreadReturnHash(t) ==
    /\ threads[t].pc = "copied"
    /\ threads[t].op = "config_hash"
    /\ Returned("config_hash", NoText, NoHash, Ok(config_to_hash(threads[t].config)),
                <<>>, FALSE)
    /\ set_thread(t, IdleThread)
    /\ UNCHANGED <<DEFAULT_CONFIG, mutex, written>>

ThreadStep(t) ==
    \/ ThreadTokenize(t) \/ ThreadConfigHash(t) \/ ThreadConfigure(t)
    \/ ThreadLoadConfig(t) \/ ThreadReset(t)
    \/ lock(t)
    \/ ThreadClone(t) \/ ThreadUnlockRead(t)
    \/ ThreadAssign(t) \/ ThreadUnlockWrite(t)
    \/ ThreadRunTokenizer(t) \/ ThreadReturnHash(t)

NextThreads ==
    /\ \E t \in Threads : ThreadStep(t)
    /\ UNCHANGED <<pc, spans_in, spans_out>>

InitThreads ==
    /\ DEFAULT_CONFIG = DEFAULT_CONFIG_initial
    /\ op = "none"
    /\ text = NoText
    /\ hash = NoHash
    /\ ret = Ok("unit")
    /\ starts = <<>>
    /\ built = FALSE
    /\ prev_default = DEFAULT_CONFIG_initial
    /\ spans_in = <<>>
    /\ spans_out = <<>>
    /\ pc = "threads"
    /\ threads = [t \in Threads |-> IdleThread]
    /\ mutex = NoThread
    /\ written = {DEFAULT_CONFIG_initial}

SpecThreads == InitThreads /\ [][NextThreads]_vars

(***************************************************************************)
(* Properties.                                                             *)
(***************************************************************************)
\* the configuration a hash parses to
ConfigOf(h) == parse_config_from_hash(h).val

\* a call of tokenize_with_config has returned tokens
Tokenized == pc = "done" /\ op = "tokenize_with_config" /\ ret.ok

\* every match of every preserve pattern in the text
MatchesIn(h, s) == collect_matches(get_or(h, "preserve_patterns", <<>>), s)

\* the words of a gap: split at whitespace, then lowercase fold and
\* punctuation stripping as the flags of h ask
GapTokens(h, s) == Strs(post_process(split_whitespace(s, 0), ConfigOf(h)))

\* gap, span, gap, span, ..., remainder over the merged spans
RECURSIVE Interleave(_, _, _, _)
Interleave(h, s, merged, from) ==
    IF merged = <<>> THEN GapTokens(h, Slice(s, from, Len(s)))
    ELSE GapTokens(h, Slice(s, from, Head(merged)[1]))
         \o <<Slice(s, Head(merged)[1], Head(merged)[2])>>
         \o Interleave(h, s, Tail(merged), Head(merged)[2])

\* C1: under Whitespace, CharGroup and Letter, when some preserve pattern
\* matches, the output is, for each merged span from left to right, the
\* post-processed whitespace-split tokens of the gap before it followed by one
\* token that is the span's original substring, then the post-processed tokens
\* of the remainder.
C1_OverlayInterleaves ==
    (Tokenized /\ hash.strategy \in {"whitespace", "char_group", "letter"}
               /\ MatchesIn(hash, text) # <<>>)
    => ret.val = Interleave(hash, text,
                            merge_overlapping_spans_optimized(MatchesIn(hash, text)), 0)

\* C1 witness: "AAa" under Whitespace with lowercase and the pattern Aa: the
\* gap "A" is folded and the span "Aa" is not
C1_Witness ==
    /\ Tokenized
    /\ hash.strategy = "whitespace" /\ hash.lowercase
    /\ text = <<"A", "A", "a">>
    /\ ret.val = <<<<"a">>, <<"A", "a">>>>

\* the non-empty substrings matched by a preserve pattern
PreservedSubstrings(h, s) ==
    {Slice(s, m[1], m[2]) : m \in {MatchesIn(h, s)[i] : i \in 1..Len(MatchesIn(h, s))}}
        \ {<<>>}

TokenSet == {ret.val[i] : i \in 1..Len(ret.val)}

\* C2: under Unicode and Pattern, with lowercase or remove_punctuation set,
\* every substring matched by a preserve pattern is a token of the output,
\* unchanged.
C2_UnicodePatternPreserve ==
    (Tokenized /\ hash.strategy \in {"unicode", "pattern"}
               /\ (hash.lowercase \/ hash.remove_punctuation))
    => PreservedSubstrings(hash, text) \subseteq TokenSet

\* C3: under Keyword, Grapheme, EdgeNgram and Ngram, with lowercase or
\* remove_punctuation set, every substring matched by a preserve pattern is a
\* token of the output, unchanged.
C3_OtherStrategiesPreserve ==
    (Tokenized /\ hash.strategy \in {"keyword", "grapheme", "edge_ngram", "ngram"}
               /\ (hash.lowercase \/ hash.remove_punctuation))
    => PreservedSubstrings(hash, text) \subseteq TokenSet

\* the offsets a list of spans covers
Covered(spans) ==
    UNION {spans[i][1]..(spans[i][2] - 1) : i \in 1..Len(spans)}

\* C4: the result of merge_overlapping_spans_optimized is sorted by start, its
\* consecutive spans do not overlap, it covers exactly the offsets the input
\* covers, and it never joins across a point where input spans only touch: a
\* point strictly inside a result span is strictly inside some input span.
C4_MergeDisjointCover ==
    (pc = "done" /\ op = "none")
    => /\ \A i \in 1..(Len(spans_out) - 1) :
              /\ spans_out[i][1] <= spans_out[i + 1][1]
              /\ spans_out[i][2] <= spans_out[i + 1][1]
       /\ \A i \in 1..Len(spans_out) : spans_out[i][1] <= spans_out[i][2]
       /\ Covered(spans_out) = Covered(spans_in)
       /\ \A i \in 1..Len(spans_out) :
              \A q \in (spans_out[i][1] + 1)..(spans_out[i][2] - 1) :
                  \E j \in 1..Len(spans_in) :
                      spans_in[j][1] < q /\ q < spans_in[j][2]

\* C4 witness: [1,2), [0,1) and [1,3) given out of order: [0,1) and [1,3) touch
\* and stay apart, [1,2) lies inside [1,3)
C4_Witness ==
    /\ pc = "done"
    /\ spans_in = <<<<1, 2>>, <<0, 1>>, <<1, 3>>>>
    /\ spans_out = <<<<0, 1>>, <<1, 3>>>>

\* the spans UrlEmail collects: the links, then the preserve-pattern matches
CollectedSpans(h, s) ==
    LET links == links_from(s, 0)
    IN [i \in 1..Len(links) |-> <<links[i][1], links[i][2]>>] \o MatchesIn(h, s)

\* C5: under UrlEmail, when two collected spans strictly overlap, one token
\* covers their union: it starts at or before the smaller start, ends at or
\* after the larger end, and is the original text there (case aside).
C5_UrlEmailMergesUnion ==
    (Tokenized /\ hash.strategy = "url_email")
    => LET spans == CollectedSpans(hash, text)
       IN \A i, j \in 1..Len(spans) :
              (spans[i][1] < spans[j][2] /\ spans[j][1] < spans[i][2])
              => \E k \in 1..Len(ret.val) :
                     /\ starts[k] <= Min(spans[i][1], spans[j][1])
                     /\ starts[k] + Len(ret.val[k]) >= Max(spans[i][2], spans[j][2])
                     /\ to_lowercase(ret.val[k]) =
                            to_lowercase(Slice(text, starts[k],
                                               starts[k] + Len(ret.val[k])))

NonDecreasing(seq) ==
    \A i \in 1..Len(seq) : \A j \in i..Len(seq) : seq[i] <= seq[j]

\* C6 as stated: for every text and each of the thirteen strategies, with or
\* without preserve patterns, the tokens come out in non-decreasing order of
\* their start position in the text.
C6_OrderAllStrategies == Tokenized => NonDecreasing(starts)

\* C6, amended: every strategy other than Ngram emits its tokens in
\* non-decreasing order of start position; Ngram emits, word by word, the
\* grams of one length before the grams of the next, so a token that starts
\* before an earlier token of the output is strictly longer than it.
C6_OrderExceptNgram ==
    Tokenized =>
        IF hash.strategy = "ngram"
        THEN \A i \in 1..Len(starts) : \A j \in i..Len(starts) :
                 starts[j] < starts[i] => Len(ret.val[j]) > Len(ret.val[i])
        ELSE NonDecreasing(starts)

\* Ngram steps back: after the grams of one length it returns to the start
\* of the word for the longer ones
C6_Witness ==
    /\ Tokenized
    /\ hash.strategy = "ngram"
    /\ \E i \in 1..Len(starts) : \E j \in i..Len(starts) :
           starts[j] < starts[i] /\ Len(ret.val[j]) > Len(ret.val[i])

\* C7: whatever the strategy, the flags, the main regex and the preserve
\* patterns, no token of the output is the empty string.
C7_NoEmptyTokens ==
    Tokenized => \A i \in 1..Len(ret.val) : ret.val[i] # <<>>

\* the strategy's segmentation of s: what it emits when neither flag is set
RawSegmentation(h, s) ==
    Tokenizer_tokenize(from_config([ConfigOf(h) EXCEPT !.lowercase = FALSE,
                                                      !.remove_punctuation = FALSE]).val,
                       s)

\* the characters stripping spares: those of the delimiter of PathHierarchy
PreservedChars(h) ==
    IF h.strategy = "path_hierarchy"
    THEN {h.delimiter[i] : i \in 1..Len(h.delimiter)}
    ELSE {}

\* lowercase fold, then punctuation stripping with empty tokens dropped
PostProcessed(h, tokens) ==
    Strs(post_process_with_preserved(tokens, ConfigOf(h), PreservedChars(h)))

\* C8 as stated: with no preserve patterns, for every strategy, the output is
\* the strategy's raw segmentation of the text passed through post-processing.
C8_IdentityAllStrategies ==
    (Tokenized /\ hash.preserve_patterns = <<>>) =>
        ret.val = PostProcessed(hash, RawSegmentation(hash, text))

\* the text has a link the UrlEmail strategy detects
HasLink(s) == links_from(s, 0) # <<>>

\* C8, amended: with no preserve patterns the output is the raw segmentation
\* passed through post-processing for every strategy when remove_punctuation
\* is off, and when it is on for every strategy but three: EdgeNgram and
\* Ngram then cut their grams from the text with its punctuation removed
\* (and fold them), and UrlEmail leaves the links it detects unstripped, so
\* for it the identity holds on texts without a link.
C8_IdentityExceptNgramStripping ==
    (Tokenized /\ hash.preserve_patterns = <<>>) =>
        IF hash.remove_punctuation /\ hash.strategy \in {"edge_ngram", "ngram"}
        THEN ret.val = Strs(lowercase_if_configured([config |-> ConfigOf(hash)],
                                RawSegmentation(hash, Retain(text, Punctuation))))
        ELSE (hash.remove_punctuation /\ hash.strategy = "url_email" /\ HasLink(text))
             \/ ret.val = PostProcessed(hash, RawSegmentation(hash, text))

\* post-processing changed the raw tokens: one folded, one stripped away
C8_Witness ==
    /\ Tokenized
    /\ hash.preserve_patterns = <<>>
    /\ hash.strategy = "keyword"
    /\ hash.lowercase /\ hash.remove_punctuation
    /\ text = <<"A", "-">>
    /\ ret.val = <<<<"a">>>>
\* a call that parses and validates the hash it was given has returned
Validated == op \in {"configure", "load_config", "tokenize_with_config"}

\* the positions of the preserve patterns of h that do not compile
BadPatterns(h) ==
    LET patterns == get_or(h, "preserve_patterns", <<>>)
    IN {i \in 1..Len(patterns) : ~compiles(patterns[i])}

\* nothing was built, nothing returned, nothing stored
Rejected == ~ret.ok /\ built = FALSE /\ DEFAULT_CONFIG = prev_default

\* C9 as stated: a configuration with a preserve pattern that does not
\* compile is rejected with InvalidRegex carrying that pattern; no tokenizer is
\* built, no tokens are returned and configure stores nothing.
C9_BadPreservePatternInvalidRegex ==
    (Validated /\ BadPatterns(hash) # {}) =>
        /\ Rejected
        /\ ret.err.kind = "InvalidRegex"
        /\ \E i \in BadPatterns(hash) : ret.err.pattern = hash.preserve_patterns[i]

\* the strategy of h is a known one, complete, and passes its own rule
StrategyAccepted(h) ==
    /\ parse_strategy(h).ok
    /\ validate_strategy(parse_strategy(h).val).ok

\* C9, amended: a configuration with a preserve pattern that does not compile
\* is always rejected, no tokenizer is built, no tokens are returned and
\* configure stores nothing; the error is InvalidRegex carrying the first such
\* pattern when the strategy is accepted, and otherwise the error of the
\* strategy, which is examined first.
C9_BadPreservePatternRejected ==
    (Validated /\ BadPatterns(hash) # {}) =>
        /\ Rejected
        /\ IF StrategyAccepted(hash)
           THEN LET first == CHOOSE i \in BadPatterns(hash) :
                                 \A j \in BadPatterns(hash) : i <= j
                IN ret.err = [kind |-> "InvalidRegex",
                              pattern |-> hash.preserve_patterns[first]]
           ELSE ret.err = IF parse_strategy(hash).ok
                          THEN validate_strategy(parse_strategy(hash).val).err
                          ELSE parse_strategy(hash).err

\* configure refused a list of two bad patterns, naming the first, and left a
\* configuration stored earlier in place
C9_Witness ==
    /\ op = "configure"
    /\ StrategyAccepted(hash)
    /\ BadPatterns(hash) = {1, 2}
    /\ ret = Err([kind |-> "InvalidRegex", pattern |-> hash.preserve_patterns[1]])
    /\ DEFAULT_CONFIG # DEFAULT_CONFIG_initial
    /\ DEFAULT_CONFIG = prev_default

\* C10: for EdgeNgram and Ngram the validator rejects with InvalidNgramConfig
\* exactly when min_gram = 0 or min_gram > max_gram, the error carries the
\* two numbers as configured, and bounds that pass never cause a rejection
\* of their own.
C10_NgramBoundsValidated ==
    (Validated /\ has(hash, "strategy") /\ hash.strategy \in {"edge_ngram", "ngram"}) =>
        LET min == get_or(hash, "min_gram", DEFAULT_MIN_GRAM)
            max == get_or(hash, "max_gram", DEFAULT_MAX_GRAM)
        IN IF min = 0 \/ min > max
           THEN /\ Rejected
                /\ ret.err = [kind |-> "InvalidNgramConfig", min |-> min, max |-> max]
           ELSE /\ ret.ok \/ ret.err.kind # "InvalidNgramConfig"
                /\ BadPatterns(hash) = {} => ret.ok

\* EdgeNgram(min = 0, max = 5) was rejected with InvalidNgramConfig(0, 5)
C10_Witness ==
    /\ Validated
    /\ hash = [strategy |-> "edge_ngram", min_gram |-> 0, max_gram |-> 5]
    /\ ret = Err([kind |-> "InvalidNgramConfig", min |-> 0, max |-> 5])

\* the violation of the strategy's own rule in the hash h, as a list of at
\* most one error
StrategyViolation(h) ==
    LET min == get_or(h, "min_gram", DEFAULT_MIN_GRAM)
        max == get_or(h, "max_gram", DEFAULT_MAX_GRAM)
        name == get_or(h, "strategy", "unicode")
    IN IF name \in {"edge_ngram", "ngram"} /\ (min = 0 \/ min > max)
       THEN <<[kind |-> "InvalidNgramConfig", min |-> min, max |-> max]>>
       ELSE IF name = "path_hierarchy" /\ get_or(h, "delimiter", <<"/">>) = <<>>
       THEN <<[kind |-> "EmptyDelimiter", tokenizer |-> "PathHierarchy"]>>
       ELSE IF name = "pattern" /\ ~compiles(h.regex)
       THEN <<[kind |-> "InvalidRegex", pattern |-> h.regex]>>
       ELSE <<>>

\* C11: validate_config is all-or-nothing and reports the first violation:
\* a hash whose strategy parses is accepted iff neither the strategy's rule
\* nor a preserve pattern is violated; otherwise the call returns the error
\* of the strategy's rule when that is violated, and else InvalidRegex with
\* the earliest preserve pattern that does not compile; on an error no
\* tokenizer is built and nothing is stored.
C11_FirstViolationReported ==
    (Validated /\ parse_strategy(hash).ok) =>
        IF StrategyViolation(hash) # <<>>
        THEN Rejected /\ ret.err = StrategyViolation(hash)[1]
        ELSE IF BadPatterns(hash) # {}
        THEN /\ Rejected
             /\ ret.err.kind = "InvalidRegex"
             /\ \E i \in BadPatterns(hash) :
                   /\ \A j \in BadPatterns(hash) : i <= j
                   /\ ret.err.pattern = hash.preserve_patterns[i]
        ELSE ret.ok

\* an empty PathHierarchy delimiter and a preserve pattern that does not
\* compile: the delimiter was reported
C11_Witness ==
    /\ Validated
    /\ get_or(hash, "strategy", "unicode") = "path_hierarchy"
    /\ StrategyViolation(hash) # <<>>
    /\ BadPatterns(hash) # {}
    /\ ret = Err([kind |-> "EmptyDelimiter", tokenizer |-> "PathHierarchy"])
    /\ built = FALSE

\* C12: the hash config_hash returns for a stored valid configuration parses
\* back to that configuration, and the tokenizer built from the hash
\* tokenizes every text as the tokenizer built from the configuration does.
C12_RoundTrip ==
    (pc = "done") =>
        /\ parse_config_from_hash(hash) = Ok(DEFAULT_CONFIG)
        /\ ret = Ok(Strs(Tokenizer_tokenize(from_config(DEFAULT_CONFIG).val, text)))

\* Ngram(1, 2) with both flags set and a preserve pattern went through the
\* round trip and tokenized a text
C12_Witness ==
    /\ pc = "done"
    /\ DEFAULT_CONFIG.strategy = [tag |-> "Ngram", min_gram |-> 1, max_gram |-> 2]
    /\ DEFAULT_CONFIG.lowercase = FALSE
    /\ DEFAULT_CONFIG.remove_punctuation
    /\ DEFAULT_CONFIG.preserve_patterns # <<>>
    /\ hash = config_to_hash(DEFAULT_CONFIG)
    /\ text = <<"A", "-", "a">>
    /\ ret.ok /\ ret.val # <<>>

\* the factory defaults as the specification lists them
FactoryDefaults ==
    [strategy |-> [tag |-> "Unicode"], lowercase |-> TRUE,
     remove_punctuation |-> FALSE, preserve_patterns |-> <<>>]

\* the hash that describes the factory defaults
FactoryHash ==
    [strategy |-> "unicode", lowercase |-> TRUE,
     remove_punctuation |-> FALSE, preserve_patterns |-> <<>>]

\* C13: before any call, and right after reset whatever was configured
\* before, the stored default configuration is strategy Unicode, lowercase
\* on, remove_punctuation off, no preserve patterns; and config_hash called
\* while that configuration is stored returns exactly its description.
C13_FactoryDefaults ==
    /\ op \in {"none", "reset"} => DEFAULT_CONFIG = FactoryDefaults
    /\ (op = "config_hash" /\ prev_default = FactoryDefaults) => ret = Ok(FactoryHash)

\* reset replaced a configuration that differed from the defaults in every
\* field
C13_Witness ==
    /\ op = "reset"
    /\ prev_default.strategy # FactoryDefaults.strategy
    /\ ~prev_default.lowercase
    /\ prev_default.remove_punctuation
    /\ prev_default.preserve_patterns # <<>>
    /\ DEFAULT_CONFIG = FactoryDefaults

\* a thread of SpecThreads that holds a complete copy of the configuration
HoldsCopy(t) == threads[t].op \in Readers /\ threads[t].pc = "copied"

\* C14: under every interleaving of the five entry points, every copy a
\* read takes of the default configuration is one complete configuration
\* that the initial state or a single completed write stored, never a mix;
\* and a tokenize or config_hash call answers from the copy it took,
\* whatever is stored when it returns.
C14_ReadsSeeOneWrite ==
    /\ [](pc = "threads" => \A t \in Threads : HoldsCopy(t) => threads[t].config \in written)
    /\ [][\A t \in Threads :
            (pc = "threads" /\ HoldsCopy(t) /\ threads'[t].pc = "idle") =>
                IF threads[t].op = "tokenize"
                THEN ret' = Ok(Strs(Tokenizer_tokenize(
                                from_config(threads[t].config).val, text')))
                ELSE ret' = Ok(config_to_hash(threads[t].config))]_vars

\* a tokenize call returned the tokens of a configured Whitespace tokenizer
\* with a preserve pattern although a reset had restored the defaults
\* before it returned
C14_Witness ==
    /\ pc = "threads"
    /\ op = "tokenize"
    /\ ret = Ok(<<<<"A", "-">>, <<"a">>>>)
    /\ prev_default = FactoryDefaults

\* the maximal runs of characters of s that are not whitespace, as pairs of
\* first and last position
WordRuns(s) ==
    {r \in (1..Len(s)) \X (1..Len(s)) :
        /\ r[1] <= r[2]
        /\ \A i \in r[1]..r[2] : ~is_whitespace(s[i])
        /\ r[1] = 1 \/ is_whitespace(s[r[1] - 1])
        /\ r[2] = Len(s) \/ is_whitespace(s[r[2] + 1])}

RECURSIVE RunsInOrder(_)
RunsInOrder(runs) ==
    IF runs = {} THEN <<>>
    ELSE LET first == CHOOSE r \in runs : \A q \in runs : r[1] <= q[1]
         IN <<first>> \o RunsInOrder(runs \ {first})

\* the whitespace-delimited words of s in document order
WordsInOrder(s) ==
    LET runs == RunsInOrder(WordRuns(s))
    IN [i \in 1..Len(runs) |-> SubSeq(s, runs[i][1], runs[i][2])]

\* the word as the n-gram strategies see it under the hash h
WordSeen(h, w) ==
    IF h.remove_punctuation THEN SelectSeq(w, LAMBDA c : ~is_ascii_punctuation(c))
    ELSE w

\* every substring of w of every length in [min, min(max, |w|)]: lengths
\* ascending and, within a length, start offsets ascending
SlidingWindows(w, min, max) ==
    Flatten([g \in 1..(Min(max, Len(w)) - min + 1) |->
                [k \in 1..(Len(w) - (min + g - 1) + 1) |->
                    SubSeq(w, k, k + (min + g - 1) - 1)]])

\* the sliding windows of every word of s, word after word
AllSlidingWindows(h, s) ==
    Flatten([i \in 1..Len(WordsInOrder(s)) |->
                SlidingWindows(WordSeen(h, WordsInOrder(s)[i]),
                               h.min_gram, h.max_gram)])

\* the strings of a list case-folded when the hash h asks for it
Folded(h, strings) ==
    IF h.lowercase THEN [i \in 1..Len(strings) |-> to_lowercase(strings[i])]
    ELSE strings

\* C15 as stated: Ngram(min, max) emits, word by word, exactly the substrings
\* of the word (its ASCII punctuation removed when remove_punctuation is set)
\* of every length in [min, min(max, |w|)] at every start offset, lengths
\* ascending, starts ascending within a length; a word shorter than min
\* contributes nothing.
C15_NgramSubstrings ==
    (Tokenized /\ hash.strategy = "ngram") => ret.val = AllSlidingWindows(hash, text)

\* C15, amended: the same, with every emitted substring case-folded when
\* lowercase is set.
C15_NgramSubstringsFolded ==
    (Tokenized /\ hash.strategy = "ngram") =>
        ret.val = Folded(hash, AllSlidingWindows(hash, text))

\* Ngram(1, 2) with both flags set on a word whose punctuation mark is
\* removed before the windows slide over it
C15_Witness ==
    /\ Tokenized
    /\ hash.strategy = "ngram"
    /\ hash.min_gram = 1 /\ hash.max_gram = 2
    /\ hash.lowercase /\ hash.remove_punctuation
    /\ text = <<"A", "-", "a">>
    /\ ret.val = <<<<"a">>, <<"a">>, <<"a", "a">>>>

\* the prefix of w of every length in [min, min(max, |w|)], shortest first
Prefixes(w, min, max) ==
    [g \in 1..(Min(max, Len(w)) - min + 1) |-> SubSeq(w, 1, min + g - 1)]

\* the prefixes of every word of s as it stands in the text, word after word
AllPrefixes(h, s) ==
    Flatten([i \in 1..Len(WordsInOrder(s)) |->
                Prefixes(WordsInOrder(s)[i], h.min_gram, h.max_gram)])

\* the prefixes of every word of s as the strategy sees it under h
AllPrefixesSeen(h, s) ==
    Flatten([i \in 1..Len(WordsInOrder(s)) |->
                Prefixes(WordSeen(h, WordsInOrder(s)[i]), h.min_gram, h.max_gram)])

\* C16 as stated: EdgeNgram(min, max) emits, word by word, exactly one prefix
\* of the word for every length in [min, min(max, |w|)], in increasing
\* length; a word shorter than min contributes nothing.
C16_EdgeNgramPrefixes ==
    (Tokenized /\ hash.strategy = "edge_ngram") => ret.val = AllPrefixes(hash, text)

\* C16, amended: the prefixes are those of the word with its ASCII
\* punctuation removed when remove_punctuation is set, and each is
\* case-folded when lowercase is set.
C16_EdgeNgramPrefixesSeen ==
    (Tokenized /\ hash.strategy = "edge_ngram") =>
        ret.val = Folded(hash, AllPrefixesSeen(hash, text))

\* EdgeNgram(1, 2) with both flags set on two words, one of them a single
\* letter once its punctuation mark is removed
C16_Witness ==
    /\ Tokenized
    /\ hash.strategy = "edge_ngram"
    /\ hash.min_gram = 1 /\ hash.max_gram = 2
    /\ hash.lowercase /\ hash.remove_punctuation
    /\ text = <<"-", "A", "a">>
    /\ ret.val = <<<<"a">>, <<"a", "a">>>>

\* p is a prefix of s
IsPrefix(p, s) == Len(p) <= Len(s) /\ SubSeq(s, 1, Len(p)) = p

\* C17: PathHierarchy with no preserve patterns and both flags off: every
\* token is a prefix of the trimmed input path and of the token after it, and
\* starts with the delimiter iff the trimmed input does, whatever the path,
\* repeated and trailing delimiters included.
C17_PathPrefixes ==
    (/\ Tokenized
     /\ hash.strategy = "path_hierarchy"
     /\ hash.preserve_patterns = <<>>
     /\ ~hash.lowercase /\ ~hash.remove_punctuation) =>
        \A i \in 1..Len(ret.val) :
            /\ IsPrefix(ret.val[i], trim(text).s)
            /\ i < Len(ret.val) => IsPrefix(ret.val[i], ret.val[i + 1])
            /\ IsPrefix(hash.delimiter, ret.val[i])
                   <=> IsPrefix(hash.delimiter, trim(text).s)

\* the whole text s case-folded and stripped of ASCII punctuation as the
\* flags of h ask
WholePostProcessed(h, s) == WordSeen(h, IF h.lowercase THEN to_lowercase(s) ELSE s)

\* a CharGroup call with an empty split set and no preserve patterns returned
NeverSplits ==
    /\ Tokenized
    /\ hash.strategy = "char_group"
    /\ hash.split_on_chars = <<>>
    /\ hash.preserve_patterns = <<>>

\* C18 as stated: CharGroup with an empty split-character set and no
\* preserve patterns returns, for every non-empty text, exactly one token,
\* the post-processed whole text with its surrounding whitespace, and
\* nothing for the empty text.
C18_CharGroupNeverSplits ==
    NeverSplits =>
        ret.val = IF text = <<>> THEN <<>> ELSE <<WholePostProcessed(hash, text)>>

\* C18, amended: the same, except that nothing is returned either when
\* post-processing leaves nothing of the text, that is when
\* remove_punctuation is set and the text is ASCII punctuation only.
C18_CharGroupAtMostOneToken ==
    NeverSplits =>
        ret.val = IF WholePostProcessed(hash, text) = <<>> THEN <<>>
                  ELSE <<WholePostProcessed(hash, text)>>

\* a text with whitespace on both sides came back whole, folded
C18_Witness ==
    /\ NeverSplits
    /\ hash.lowercase
    /\ text = <<" ", "A", " ">>
    /\ ret.val = <<<<" ", "a", " ">>>>

\* what tokenize_with_config returns on s for the hash h
OutputOf(h, s) == Strs(Tokenizer_tokenize(from_config(ConfigOf(h)).val, s))

\* token number k of the output is a preserved span: the text as it stands
\* from the start of a preserve-pattern match to the end of one
IsPreservedSpan(k) ==
    /\ ret.val[k] = Slice(text, starts[k], starts[k] + Len(ret.val[k]))
    /\ \E i, j \in 1..Len(MatchesIn(hash, text)) :
          /\ MatchesIn(hash, text)[i][1] = starts[k]
          /\ MatchesIn(hash, text)[j][2] = starts[k] + Len(ret.val[k])

\* C19: the Lowercase strategy ignores the lowercase flag: whatever the text
\* and the preserve patterns, the output is the output under the other value
\* of the flag, and every token that is not a preserved span is case-folded.
C19_LowercaseIgnoresFlag ==
    (Tokenized /\ hash.strategy = "lowercase") =>
        /\ ret.val = OutputOf([hash EXCEPT !.lowercase = ~hash.lowercase], text)
        /\ \A k \in 1..Len(ret.val) :
              IsPreservedSpan(k) \/ ret.val[k] = to_lowercase(ret.val[k])

\* lowercase=false with a preserve pattern: the match kept its capital, the
\* rest of the text was folded
C19_Witness ==
    /\ Tokenized
    /\ hash.strategy = "lowercase"
    /\ ~hash.lowercase
    /\ hash.preserve_patterns = <<Lit(<<"A", "-">>)>>
    /\ text = <<"A", "-", "A">>
    /\ ret.val = <<<<"A", "-">>, <<"a">>>>

\* a preserve pattern of h matches somewhere in the string
SomePatternMatches(h, string) ==
    \E i \in 1..Len(h.preserve_patterns) : is_match(h.preserve_patterns[i], string)

\* the token the claim expects for the link text under h
LinkToken(h, link) ==
    IF h.lowercase /\ ~SomePatternMatches(h, link) THEN to_lowercase(link) ELSE link

\* offset o lies inside a collected span or is the start of one
InSpan(o) ==
    \E i \in 1..Len(CollectedSpans(hash, text)) :
        \/ CollectedSpans(hash, text)[i][1] = o
        \/ CollectedSpans(hash, text)[i][1] < o /\ o < CollectedSpans(hash, text)[i][2]

\* token number k is a Unicode word of the text outside the spans,
\* post-processed: a run of letters that ends where the text, the run or a
\* span's start ends it, case-folded when lowercase is set
IsWordOutsideSpans(k) ==
    \E e \in (starts[k] + 1)..Len(text) :
        /\ \A o \in (starts[k] + 1)..e : is_alphanumeric(text[o])
        /\ starts[k] = 0 \/ ~is_alphanumeric(text[starts[k]]) \/ InSpan(starts[k] - 1)
               \/ \E i \in 1..Len(CollectedSpans(hash, text)) :
                      CollectedSpans(hash, text)[i][2] = starts[k]
        /\ e = Len(text) \/ ~is_alphanumeric(text[e + 1]) \/ InSpan(e)
        /\ ret.val[k] = Folded(hash, <<Slice(text, starts[k], e)>>)[1]

\* token number k holds the whole link: it starts at or before the link,
\* ends at or after it, and reads over the link as the claim expects
HoldsLink(k, link) ==
    /\ starts[k] <= link[1]
    /\ link[2] <= starts[k] + Len(ret.val[k])
    /\ SubSeq(ret.val[k], link[1] - starts[k] + 1, link[2] - starts[k])
           = LinkToken(hash, link[3])

\* C20, first half: every detected link is held whole by one token of the
\* output, lowercased when lowercase is set unless a preserve pattern matches
\* it, and else in its original casing.
C20_LinksAreTokens ==
    \A i \in 1..Len(links_from(text, 0)) :
        \E k \in 1..Len(ret.val) : HoldsLink(k, links_from(text, 0)[i])

\* C20, second half: every token that starts outside the spans is a
\* post-processed Unicode word of the text there.
C20_RestIsWords ==
    \A k \in 1..Len(ret.val) : InSpan(starts[k]) \/ IsWordOutsideSpans(k)

\* C20: under UrlEmail every detected URL or e-mail span comes out as exactly
\* one token, lowercased when lowercase is set unless a preserve pattern
\* matches it, and the text outside the spans is segmented into Unicode
\* words and post-processed.
C20_UrlEmailSpans ==
    (Tokenized /\ hash.strategy = "url_email") =>
        C20_LinksAreTokens /\ C20_RestIsWords

\* the sentence s with every character inside a preserve-pattern match as it
\* stands and every other character case-folded
SentenceKept(h, s) ==
    [o \in 1..Len(s) |-> IF (o - 1) \in Covered(MatchesIn(h, s)) THEN s[o]
                         ELSE char_to_lowercase(s[o])]

\* C21: Sentence with preserve patterns, lowercase set and remove_punctuation
\* off: each sentence token has the characters of its source sentence, in
\* order, those inside a preserve-pattern match verbatim and the others
\* case-folded, none duplicated and none dropped, also when matches overlap
\* or one contains another.
C21_SentenceKeepsCharacters ==
    (/\ Tokenized
     /\ hash.strategy = "sentence"
     /\ hash.preserve_patterns # <<>>
     /\ hash.lowercase /\ ~hash.remove_punctuation) =>
        ret.val = [i \in 1..Len(unicode_sentences(text)) |->
                      SentenceKept(hash, unicode_sentences(text)[i].s)]

\* the tokenizer built from the hash h
TokenizerOf(h) == from_config(ConfigOf(h)).val

\* the hierarchy-level tokens of s that some preserve pattern of h matches
\* as a whole
WholeMatched(h, s) ==
    preserved_hierarchy_tokens(TokenizerOf(h), generate_hierarchy(TokenizerOf(h), trim(s).s))

\* C22: PathHierarchy with preserve patterns: a hierarchy-level token whose
\* whole text is matched by a preserve pattern is emitted exactly as it
\* stands, neither lowercased nor punctuation-stripped, whatever lowercase
\* and remove_punctuation are.
C22_WholeMatchVerbatim ==
    (/\ Tokenized
     /\ hash.strategy = "path_hierarchy"
     /\ hash.preserve_patterns # <<>>) =>
        \A token \in WholeMatched(hash, text) :
            \E k \in 1..Len(ret.val) : ret.val[k] = token

\* the configuration the last call handed to from_config
BuiltFrom == IF op = "tokenize" THEN DEFAULT_CONFIG ELSE ConfigOf(hash)

NgramTags == {"EdgeNgram", "Ngram"}

\* the bounds of the n-gram strategy st satisfy 1 <= min_gram <= max_gram
BoundsInOrder(st) == 1 <= st.min_gram /\ st.min_gram <= st.max_gram

\* the constructor called for the n-gram configuration c kept its bounds
ClampKeeps(c) ==
    /\ from_config(c).val.min_gram = c.strategy.min_gram
    /\ from_config(c).val.max_gram = c.strategy.max_gram

\* C23: through tokenize, configure, load_config and tokenize_with_config
\* the constructors of the two n-gram tokenizers are only called with bounds
\* 1 <= min_gram <= max_gram, which the validator has let through, so their
\* clamp leaves the configured bounds as they are; the stored default
\* configuration never holds other bounds.
C23_ClampNeverActs ==
    /\ DEFAULT_CONFIG.strategy.tag \in NgramTags => BoundsInOrder(DEFAULT_CONFIG.strategy)
    /\ (built /\ BuiltFrom.strategy.tag \in NgramTags) =>
           BoundsInOrder(BuiltFrom.strategy) /\ ClampKeeps(BuiltFrom)

\* tokenize built an edge n-gram tokenizer from a stored configuration with
\* the bounds 2 and 2 and ran it
C23_Witness ==
    /\ op = "tokenize"
    /\ built
    /\ ret.ok /\ ret.val # <<>>
    /\ DEFAULT_CONFIG.strategy = [tag |-> "EdgeNgram", min_gram |-> 2, max_gram |-> 2]

\* the hash h with its preserve-pattern list emptied
WithoutPatterns(h) == [h EXCEPT !.preserve_patterns = <<>>]

\* C24: Whitespace, CharGroup and Letter with preserve patterns of which none
\* matches anywhere in the text: the output is that of the same configuration
\* with no preserve patterns, the raw tokens lowercased and stripped of
\* punctuation as the flags say.
C24_UnmatchedPatternsHarmless ==
    (/\ Tokenized
     /\ hash.strategy \in {"whitespace", "char_group", "letter"}
     /\ hash.preserve_patterns # <<>>
     /\ MatchesIn(hash, text) = <<>>) =>
        ret.val = OutputOf(WithoutPatterns(hash), text)

\* C25: after any sequence of configure, load_config, reset and tokenize
\* calls, successful or failing, the stored default configuration satisfies
\* validate_config, a tokenizer can be built from it, and the default-path
\* tokenize has built one and returned a (possibly empty) token sequence.
C25_DefaultAlwaysValid ==
    /\ validate_config(DEFAULT_CONFIG).ok
    /\ from_config(DEFAULT_CONFIG).ok
    /\ op = "tokenize" =>
           /\ built /\ ret.ok
           /\ ret.val = Strs(Tokenizer_tokenize(from_config(DEFAULT_CONFIG).val, text))

\* tokenize ran on a stored Pattern configuration and returned tokens
C25_Witness ==
    /\ op = "tokenize"
    /\ DEFAULT_CONFIG.strategy.tag = "Pattern"
    /\ ret.ok /\ ret.val # <<>>

\* what tokenize_with_config returns for the text t and the hash h, from its
\* two arguments alone
OneOffResult(t, h) ==
    IF ~parse_config_from_hash(h).ok THEN Err(parse_config_from_hash(h).err)
    ELSE IF ~from_config(ConfigOf(h)).ok THEN Err(from_config(ConfigOf(h)).err)
         ELSE Ok(OutputOf(h, t))

\* a step that is a refused configure or load_config
RefusedStep == op' \in {"configure", "load_config"} /\ ~ret'.ok

\* a step that is a tokenize_with_config call
OneOffStep == op' = "tokenize_with_config"

\* C26: a configure or load_config call that fails, for whichever reason,
\* leaves the stored default configuration as it was before the call, and
\* tokenize_with_config, succeeding or failing, leaves it as it was and
\* returns what its own two arguments determine, whatever is stored.
C26_StateUnchanged ==
    [][/\ RefusedStep => DEFAULT_CONFIG' = DEFAULT_CONFIG
       /\ OneOffStep => /\ DEFAULT_CONFIG' = DEFAULT_CONFIG
                        /\ ret' = OneOffResult(text', hash')]_vars

\* load_config refused an empty delimiter while a configuration other than
\* the initial one was stored, and that configuration is still stored
C26_Witness ==
    /\ op = "load_config"
    /\ ~ret.ok /\ ret.err.kind = "EmptyDelimiter"
    /\ DEFAULT_CONFIG # DEFAULT_CONFIG_initial
    /\ DEFAULT_CONFIG = prev_default
====
